---------------------------- MODULE Spec2Model ----------------------------
(***************************************************************************)
(* PrivateTab: the background service worker's lock-state engine           *)
(* (TabManager), its message router (MessageHandler) and the credential    *)
(* verifier (CryptoService), as a state machine.                           *)
(*                                                                         *)
(* Execution model.  The service worker is one JavaScript event loop.  An  *)
(* async method runs synchronously up to its next `await` of real I/O      *)
(* (chrome.tabs.*, chrome.storage.*, chrome.notifications.*, crypto), so   *)
(* one step of a task is the code between two such awaits.  An external    *)
(* call takes effect (a write) or takes its value (a read) when it is      *)
(* made; only the continuation is deferred, and any other task, event or   *)
(* timer may run in between.  An `await` of a method that returns without  *)
(* I/O is resumed in the same macrotask and is part of the same step.      *)
(*                                                                         *)
(* Time is the value of Date.now() in milliseconds; it advances a minute   *)
(* at a time.                                                              *)
(***************************************************************************)
EXTENDS Integers, Sequences, FiniteSets, TLC

\* ------------------------------------------------------------------ bounds
NumTabs == 2
MaxTasks == 2
\* how many tabs overlapping invocations are about
BusyTabs == 1
\* how many times the clock advances while timers are followed
MaxMinutes == 1
\* how many times the clock advances while password attempts are followed
MaxHalfLockouts == 3

\* --------------------------------------------------------------- constants
MsPerMinute == 60000
LockoutMs == 300000
MaxAttempts == 5
Pbkdf2Iterations == 100000
PasswordMinLength == 1
PasswordMaxLength == 128

Tabs == 1..NumTabs
Slots == 1..MaxTasks

\* The browser's tabs: the even ones are incognito windows' tabs.
IsIncognitoTab(t) == t % 2 = 0

\* ------------------------------------------------------------- URL globs
\* Strings are sequences of one-character strings.
UrlTrustedPage == <<"t", "/", "p">>
UrlTrustedDeep == <<"t", "/", "p", "/", "q">>
UrlTrustedUpper == <<"T", "/", "p">>
UrlOther == <<"x", "/", "p">>
UrlEmpty == <<>>
Urls == {UrlTrustedPage, UrlTrustedDeep, UrlOther}

PatStar == <<"t", "/", "*">>
PatDoubleStar == <<"t", "/", "*", "*">>
PatDot == <<"t", ".", "p">>
PatBroken == <<"t", "/", "(">>

\* The 'i' flag of the RegExp: letters compare without case.
LowerCase(c) == CASE c = "T" -> "t" [] c = "P" -> "p" [] c = "X" -> "x" [] OTHER -> c

\* pattern.replace(/\./g,'\\.').replace(/\*\*/g, DS).replace(/\*/g,'[^/]*')
\*        .replace(DS, '.*'): a left-to-right scan in which two adjacent stars
\* become ".*", a remaining single star becomes "[^/]*", and every other
\* character stays itself ("." escaped to a literal dot).
RECURSIVE GlobToRegex(_)
GlobToRegex(p) ==
    IF p = <<>> THEN <<>>
    ELSE IF Len(p) >= 2 /\ p[1] = "*" /\ p[2] = "*"
         THEN <<"ANY">> \o GlobToRegex(SubSeq(p, 3, Len(p)))
    ELSE IF p[1] = "*"
         THEN <<"SEG">> \o GlobToRegex(Tail(p))
    ELSE <<p[1]>> \o GlobToRegex(Tail(p))

\* new RegExp(...) throws on an unbalanced group
RegexCompiles(re) == \A i \in 1..Len(re) : re[i] # "("

\* regex.test(url) for ^re$ with the 'i' flag
RECURSIVE RegexMatches(_, _)
RegexMatches(re, s) ==
    IF re = <<>> THEN s = <<>>
    ELSE IF re[1] = "ANY"
         THEN \E k \in 0..Len(s) : RegexMatches(Tail(re), SubSeq(s, k + 1, Len(s)))
    ELSE IF re[1] = "SEG"
         THEN \E k \in 0..Len(s) :
                 /\ \A j \in 1..k : s[j] # "/"
                 /\ RegexMatches(Tail(re), SubSeq(s, k + 1, Len(s)))
    ELSE /\ s # <<>>
         /\ LowerCase(s[1]) = LowerCase(re[1])
         /\ RegexMatches(Tail(re), Tail(s))

PatternMatches(pattern, url) ==
    LET re == GlobToRegex(pattern)
    IN  IF RegexCompiles(re) THEN RegexMatches(re, url) ELSE FALSE

isUrlWhitelisted(url, patterns) ==
    IF url = <<>> \/ Len(patterns) = 0 THEN FALSE
    ELSE \E i \in 1..Len(patterns) : PatternMatches(patterns[i], url)


\* ------------------------------------------------------------------ data
Absent == -1

\* A PrivateTab object of the registry; present = FALSE stands for "no entry".
NoTab == [present |-> FALSE, url |-> <<>>, title |-> "", isLocked |-> FALSE,
          lastUnlocked |-> Absent]

\* What a page shows: the url and title chrome.tabs reports for it.
Pages == {[url |-> UrlTrustedPage, title |-> "Trusted"],
          [url |-> UrlOther, title |-> "Other"]}
NoPage == [url |-> <<>>, title |-> ""]

\* JavaScript truthiness of an optional number
Truthy(n) == n # Absent /\ n # 0

IncognitoModes == {"disabled", "always-lock", "normal"}

\* The settings as TabManager reads them: DEFAULT_SETTINGS with a timeout of
\* one minute, the incognito policy, Private Mode and the whitelist, and the
\* lockingEnabled switch that the settings store keeps.
BaseSettings == [lockingEnabled |-> TRUE, autoLockTimeout |-> 1,
                 lockOnTabSwitch |-> TRUE, showNotifications |-> TRUE,
                 incognitoMode |-> "normal", privateMode |-> FALSE,
                 whitelistedUrls |-> <<>>]

\* Partial<Settings> objects the settings page sends: one field each
Patches ==
    {<<"autoLockTimeout", n>> : n \in {0, 1}}
    \cup {<<"privateMode", b>> : b \in BOOLEAN}
    \cup {<<"whitelistedUrls", wl>> : wl \in {<<>>, <<PatStar>>}}
    \cup {<<"incognitoMode", m>> : m \in IncognitoModes}

\* { ...current, ...partial }
Merge(settings, patch) == [settings EXCEPT ![patch[1]] = patch[2]]

\* What the user types: the master password, another one, nothing
Passwords == {"Sn0wman!", "wrong", ""}
PasswordText(pw) == IF pw = "" THEN <<>> ELSE <<pw>>
Salts == {"c2FsdA=="}
NoHash == [present |-> FALSE, hash |-> <<>>, salt |-> "", iterations |-> 0]

NoAttempts == [count |-> 0, lastAttempt |-> 0]
\* Attempt objects live on a heap: the Map holds references, and so do the
\* handlers that are suspended in a verification.
ObjIds == 1..(NumTabs + MaxTasks)

\* A chrome.runtime.MessageSender (tab 0, frameId Absent: the field is not set)
NoSender == [id |-> "", url |-> "", tab |-> 0, frameId |-> Absent]

NoResult == [kind |-> "none", success |-> FALSE, attempts |-> Absent, error |-> ""]

\* What an invocation that runs alone found when it was called: the registry,
\* the timers, the stored collection and the settings as they were.
NoSnapshot == [taken |-> FALSE,
               reg |-> [t \in 1..NumTabs |-> NoTab],
               timers |-> [t \in 1..NumTabs |-> 0],
               pending |-> {},
               stored |-> [t \in 1..NumTabs |-> NoTab],
               settings |-> BaseSettings]

\* A task is one invocation of an async method (an event listener, a message
\* handler, a timer callback): its position, its arguments and the locals
\* that live across its awaits.
IdleTask == [op |-> "idle", pc |-> "idle", tab |-> 0,
             tabv |-> [ok |-> FALSE, page |-> NoPage, incognito |-> FALSE],
             s1 |-> BaseSettings, s2 |-> BaseSettings,
             via |-> "call", from |-> NoSender,
             pw |-> "", ref |-> 0, seen |-> NoAttempts, t0 |-> 0, hashv |-> NoHash,
             patch |-> <<>>, pre |-> NoSnapshot, amid |-> FALSE,
             incognitoTabs |-> <<>>, newPassword |-> "", type |-> "",
             failed |-> {},
             ptLive |-> FALSE, ptLocked |-> FALSE,
             itLive |-> FALSE, itPos |-> 0, itRest |-> <<>>,
             sub |-> [t \in Tabs |-> "none"],
             cmds |-> {}, notified |-> FALSE, consulted |-> FALSE,
             solo |-> FALSE, res |-> NoResult]

VARIABLES
    privateTabs,      \* TabManager.privateTabs: tabId -> PrivateTab
    tabOrder,         \* the keys of privateTabs in the Map's insertion order
    sessionTimers,    \* TabManager.sessionTimers: tabId -> timer handle (0: none)
    pendingTimers,    \* the event loop's scheduled, not yet fired, timeouts
    storedTabs,       \* chrome.storage.local: the privateTabs key
    storedSettings,   \* chrome.storage.local: the settings key
    storedHash,       \* chrome.storage.local: the masterPasswordHash key
    passwordAttempts, \* MessageHandler.passwordAttempts: tabId -> object (0: none)
    attemptObjs,      \* the attempt objects
    browserTabs,      \* the browser: which tabs are open and what they show
    loaded,           \* TabManager.initialize has assigned privateTabs
    bootTabs,         \* what initialize's storage read returns
    tasks,            \* the async invocations in flight
    now               \* Date.now()

vars == <<privateTabs, tabOrder, sessionTimers, pendingTimers, storedTabs, storedSettings,
          storedHash, passwordAttempts, attemptObjs, browserTabs, loaded,
          bootTabs, tasks, now>>



\* Everything the program's code can change, as one value: a step of a task
\* is a function from worlds to worlds, so that the synchronous calls a step
\* makes compose.
World == [reg |-> privateTabs, order |-> tabOrder, timers |-> sessionTimers,
          pending |-> pendingTimers, stored |-> storedTabs,
          settings |-> storedSettings, hash |-> storedHash,
          att |-> passwordAttempts, objs |-> attemptObjs, tk |-> tasks]

InFlight(tk) == {j \in Slots : tk[j].op # "idle"}
NoneDone == \A j \in Slots : tasks[j].pc # "done"

\* A step of slot i is an interleaving for every other invocation in flight.
Interfere(tk, i) ==
    [j \in Slots |-> IF j # i /\ tk[j].op # "idle"
                     THEN [tk[j] EXCEPT !.solo = FALSE, !.pre = NoSnapshot]
                     ELSE tk[j]]

Apply(W, i) ==
    /\ privateTabs' = W.reg
    /\ tabOrder' = W.order
    /\ sessionTimers' = W.timers
    /\ pendingTimers' = W.pending
    /\ storedTabs' = W.stored
    /\ storedSettings' = W.settings
    /\ storedHash' = W.hash
    /\ passwordAttempts' = W.att
    /\ attemptObjs' = W.objs
    /\ tasks' = Interfere(W.tk, i)

Ok == [NoResult EXCEPT !.kind = "ok", !.success = TRUE]
Thrown(msg) == [NoResult EXCEPT !.kind = "error", !.error = msg]
Reply(success, attempts, error) ==
    [kind |-> "response", success |-> success, attempts |-> attempts, error |-> error]

\* { error: message }: an object without a success field
ErrorResult(msg) == [NoResult EXCEPT !.kind = "errorResult", !.error = msg]
\* { settings }, { tabs }, { status }: an answer that carries a value
Answer(kind) == [NoResult EXCEPT !.kind = kind]

Response_rethrows(res) ==
    IF res.kind = "ok" THEN Reply(TRUE, Absent, "") ELSE res

\* handleMessage's own return and its catch: what sendResponse is given
Response(res) ==
    CASE res.kind = "ok" -> Reply(TRUE, Absent, "")
      [] res.kind = "error" -> ErrorResult(res.error)
      [] OTHER -> res

\* The invocation returns (or throws) to whoever called it.
Finish(W, i, res) ==
    [W EXCEPT !.tk[i].pc = "done",
              !.tk[i].res = IF W.tk[i].via = "message" THEN Response(res) ELSE res]

IndexOf(seq, x) == CHOOSE k \in 1..Len(seq) : seq[k] = x
Without(seq, x) == SelectSeq(seq, LAMBDA y : y # x)

\* --------------------------------------------------- the registry as a Map
\* An object that leaves the Map stays as it is in the hands of a handler
\* that holds it (handleTabUpdated keeps `privateTab` across its await).
DetachRefs(W, t) ==
    [W EXCEPT !.tk = [j \in Slots |->
        IF W.tk[j].op = "updated" /\ W.tk[j].tab = t /\ W.tk[j].ptLive
        THEN [W.tk[j] EXCEPT !.ptLive = FALSE, !.ptLocked = W.reg[t].isLocked]
        ELSE W.tk[j]]]

\* Map.prototype.delete: live iterators past the entry move back with it.
MapDelete(W, t) ==
    IF ~W.reg[t].present THEN W
    ELSE LET k == IndexOf(W.order, t)
             W1 == DetachRefs(W, t)
         IN  [W1 EXCEPT !.reg[t] = NoTab,
                        !.order = Without(W.order, t),
                        !.tk = [j \in Slots |->
                            IF W1.tk[j].itLive /\ k <= W1.tk[j].itPos
                            THEN [W1.tk[j] EXCEPT !.itPos = @ - 1]
                            ELSE W1.tk[j]]]

\* Map.prototype.set: a new key goes last, an existing key keeps its place.
MapSet(W, t, rec) ==
    IF W.reg[t].present
    THEN [DetachRefs(W, t) EXCEPT !.reg[t] = rec]
    ELSE [W EXCEPT !.reg[t] = rec, !.order = Append(W.order, t)]

\* getTabStatus
getTabStatus(reg, t) ==
    IF ~reg[t].present THEN "normal"
    ELSE IF reg[t].isLocked THEN "private-locked" ELSE "private-unlocked"

\* savePrivateTabs: the whole collection, as it is at the call
savePrivateTabs(W) == [W EXCEPT !.stored = W.reg]

clearSessionTimer_keepsTimeout(W, t) == [W EXCEPT !.timers[t] = 0]

\* clearSessionTimer
clearSessionTimer(W, t) ==
    IF W.timers[t] # 0
    THEN [W EXCEPT !.pending = {x \in @ : x.id # W.timers[t]}, !.timers[t] = 0]
    ELSE W

\* chrome.tabs.sendMessage(tabId, {type}): the command is issued; a failed
\* delivery is caught by the caller.
sendMessage(W, i, t, type) == [W EXCEPT !.tk[i].cmds = @ \cup {<<type, t>>}]

\* notifyTabStatusChanged
notifyTabStatusChanged(W, i) == [W EXCEPT !.tk[i].notified = TRUE]

\* chrome.tabs.get(tabId)
tabsGet(t) == [ok |-> browserTabs[t].open, page |-> browserTabs[t].page,
               incognito |-> IsIncognitoTab(t)]


lockedTab_keepsLastUnlocked(r) == [r EXCEPT !.isLocked = TRUE]

\* ------------------------------------------------------------- TabManager
\* lockTab, from the Map lookup to the await of savePrivateTabs
lockedTab(r) ==
    [r EXCEPT !.isLocked = TRUE,
              !.lastUnlocked = IF Truthy(@) THEN Absent ELSE @]

lockTabSync_clearsAll(W, t) ==
    savePrivateTabs([W EXCEPT !.reg[t] = lockedTab(@), !.pending = {},
                              !.timers = [u \in Tabs |-> 0]])

\* lockTab's synchronous part: the assignments, clearSessionTimer and the
\* call of savePrivateTabs
lockTabSync(W, t) ==
    savePrivateTabs(clearSessionTimer([W EXCEPT !.reg[t] = lockedTab(@)], t))

\* The timeout callback's last statement: this.sessionTimers.delete(tabId)
timerCallbackEnd(W, i) ==
    Finish([W EXCEPT !.timers[W.tk[i].tab] = 0], i, Ok)

\* What each caller of lockTab does when lockTab returns
afterLockTab(W, i) ==
    LET op == W.tk[i].op
    IN  CASE op = "mark" -> [savePrivateTabs(W) EXCEPT !.tk[i].pc = "tp_save"]
          [] op = "timer" ->
                IF W.tk[i].s1.showNotifications
                THEN [W EXCEPT !.tk[i].notified = TRUE, !.tk[i].pc = "t_notify"]
                ELSE timerCallbackEnd(W, i)
          [] OTHER -> Finish(W, i, Ok)

\* await this.lockTab(tabId)
lockTab(W, i, t) ==
    IF ~W.reg[t].present THEN afterLockTab(W, i)
    ELSE [lockTabSync(W, t) EXCEPT !.tk[i].pc = "l_save"]

\* startSessionTimer, up to its await of getSettings
startSessionTimer(W, i, t) ==
    [clearSessionTimer(W, t) EXCEPT !.tk[i].tab = t,
                                    !.tk[i].s1 = W.settings,
                                    !.tk[i].pc = "st_settings"]

\* restartSessionTimers' loop over this.privateTabs.entries(): a live
\* iterator, or what is left of a Map that initialize has replaced.
RECURSIVE restartLoop(_, _)
restartLoop(W, i) ==
    LET tsk == W.tk[i]
    IN  IF tsk.itLive
        THEN IF tsk.itPos >= Len(W.order) THEN Finish(W, i, Ok)
             ELSE LET t == W.order[tsk.itPos + 1]
                      W1 == [W EXCEPT !.tk[i].itPos = @ + 1]
                  IN  IF ~W.reg[t].isLocked /\ Truthy(W.reg[t].lastUnlocked)
                      THEN startSessionTimer(W1, i, t)
                      ELSE restartLoop(W1, i)
        ELSE IF tsk.itRest = <<>> THEN Finish(W, i, Ok)
             ELSE startSessionTimer([W EXCEPT !.tk[i].itRest = Tail(@)], i,
                                    Head(tsk.itRest))

\* What each caller of startSessionTimer does when it returns
afterStartSessionTimer(W, i) ==
    IF W.tk[i].op \in {"restart", "privateMode"}
    THEN restartLoop(W, i)
    ELSE Finish(notifyTabStatusChanged(W, i), i, Ok)

\* setTimeout returns a handle no live timeout has
FreshHandle(W) ==
    LET used == {x.id : x \in W.pending} \cup {W.timers[t] : t \in Tabs}
    IN  CHOOSE h \in 1..(Cardinality(used) + 1) :
            h \notin used /\ \A g \in 1..(h - 1) : g \in used

scheduleTimer_noTimeout(W, i) == W

\* setTimeout(callback, timeoutMs); this.sessionTimers.set(tabId, timer)
scheduleTimer(W, i) ==
    LET t == W.tk[i].tab
        h == FreshHandle(W)
        timer == [id |-> h, tab |-> t,
                  due |-> now + W.tk[i].s1.autoLockTimeout * 60 * 1000,
                  notify |-> W.tk[i].s1.showNotifications]
    IN  [W EXCEPT !.pending = @ \cup {timer}, !.timers[t] = h]

\* unlockTab, up to its await of savePrivateTabs
unlockTab(W, i, t) ==
    IF ~W.reg[t].present THEN Finish(W, i, Ok)
    ELSE [savePrivateTabs([W EXCEPT !.reg[t].isLocked = FALSE,
                                    !.reg[t].lastUnlocked = now])
            EXCEPT !.tk[i].pc = "u_save"]

lockEach_firstOnly(W, i, keys) ==
    IF keys = <<>> THEN W
    ELSE [lockTabSync(W, Head(keys)) EXCEPT !.tk[i].sub[Head(keys)] = "l_save"]

\* lockAllTabs: every lockTab call runs to its first await at once
RECURSIVE lockEach(_, _, _)
lockEach(W, i, keys) ==
    IF keys = <<>> THEN W
    ELSE lockEach([lockTabSync(W, Head(keys)) EXCEPT !.tk[i].sub[Head(keys)] = "l_save"],
                  i, Tail(keys))


\* ---------------------------------------------------------------- actions
\* A new invocation takes the lowest free slot.  An invocation that has
\* returned is observed (pc = "done") before anything else happens.
FreeSlot(i) ==
    /\ NoneDone
    /\ tasks[i].op = "idle"
    /\ \A j \in 1..(i - 1) : tasks[j].op # "idle"

\* The operations whose effect is compared with the state they found
SnapshotOps == {"activated", "lock", "lockAll", "timer", "unmark", "removed",
                "updated", "privateMode", "incognitoMode", "updateSettings"}

Snapshot(W) == [taken |-> TRUE, reg |-> W.reg, timers |-> W.timers,
                pending |-> W.pending, stored |-> W.stored, settings |-> W.settings]

Begin(W, i, op, t) ==
    LET alone == InFlight(tasks) = {} /\ loaded
    IN  [W EXCEPT !.tk[i] = [IdleTask EXCEPT !.op = op, !.tab = t,
                                             !.solo = alone,
                                             !.pre = IF alone /\ op \in SnapshotOps
                                                     THEN Snapshot(W)
                                                     ELSE NoSnapshot]]

Running(i, pc) == NoneDone /\ tasks[i].pc = pc

\* Handles are not reclaimed before they fire: new timers are started only
\* while fewer than MaxPending timeouts could be pending.
MaxPending == 2
TimerRoom == Cardinality(pendingTimers) + Cardinality(InFlight(tasks)) < MaxPending

\* The attempt objects something still refers to
Referenced(att, tk) == {att[t] : t \in Tabs} \cup {tk[j].ref : j \in Slots}

\* The slots above a retired invocation move down: which slot an invocation
\* sits in carries no meaning.
Retire(i) ==
    /\ tasks[i].pc = "done"
    /\ tasks' = [j \in Slots |-> IF j < i THEN tasks[j]
                                 ELSE IF j < MaxTasks THEN tasks[j + 1]
                                 ELSE IdleTask]
    /\ attemptObjs' = [o \in ObjIds |->
                         IF o \in Referenced(passwordAttempts, tasks')
                         THEN attemptObjs[o] ELSE NoAttempts]
    /\ UNCHANGED <<privateTabs, tabOrder, sessionTimers, pendingTimers, storedTabs,
                   storedSettings, storedHash, passwordAttempts,
                   browserTabs, loaded, bootTabs, now>>

\* Date.now() moves on by `step` milliseconds, `last` being the latest time
\* that is followed.
Tick(step, last) ==
    /\ NoneDone
    /\ now + step <= last
    /\ now' = now + step
    /\ UNCHANGED <<privateTabs, tabOrder, sessionTimers, pendingTimers, storedTabs,
                   storedSettings, storedHash, passwordAttempts, attemptObjs,
                   browserTabs, loaded, bootTabs, tasks>>

toggleTabPrivate_keepsTimer(W, i, t, isPrivate) ==
    IF isPrivate
    THEN [W EXCEPT !.tk[i].op = "mark", !.tk[i].tab = t,
                   !.tk[i].tabv = tabsGet(t), !.tk[i].pc = "m_get"]
    ELSE [sendMessage(W, i, t, "UNLOCK_TAB")
            EXCEPT !.tk[i].op = "unmark", !.tk[i].tab = t, !.tk[i].pc = "x_send"]

\* toggleTabPrivate, up to its first await: chrome.tabs.get when marking,
\* the UNLOCK_TAB message when unmarking
toggleTabPrivate(W, i, t, isPrivate) ==
    IF isPrivate
    THEN [W EXCEPT !.tk[i].op = "mark", !.tk[i].tab = t,
                   !.tk[i].tabv = tabsGet(t), !.tk[i].pc = "m_get"]
    ELSE [sendMessage(clearSessionTimer(W, t), i, t, "UNLOCK_TAB")
            EXCEPT !.tk[i].op = "unmark", !.tk[i].tab = t, !.tk[i].pc = "x_send"]

\* toggleTabPrivate(tabId, true)
StartMark(i, t) ==
    /\ FreeSlot(i)
    /\ Apply(toggleTabPrivate(Begin(World, i, "mark", t), i, t, TRUE), i)
    /\ UNCHANGED <<browserTabs, loaded, bootTabs, now>>

MarkGotTab(i) ==
    /\ Running(i, "m_get")
    /\ Apply(IF ~tasks[i].tabv.ok
             THEN Finish(World, i, Thrown("No tab with id"))
             ELSE [World EXCEPT !.tk[i].s1 = storedSettings,
                                !.tk[i].pc = "m_settings"], i)
    /\ UNCHANGED <<browserTabs, loaded, bootTabs, now>>

newPrivateTab(tab) ==
    [present |-> TRUE,
     url |-> tab.page.url,
     title |-> IF tab.page.title = "" THEN "Untitled" ELSE tab.page.title,
     isLocked |-> TRUE,
     lastUnlocked |-> Absent]

incognitoBlocked_whenAlwaysLock(tab, settings) ==
    tab.incognito /\ settings.incognitoMode = "always-lock"

incognitoBlocked(tab, settings) ==
    tab.incognito /\ settings.incognitoMode = "disabled"

MarkGotSettings(i) ==
    /\ Running(i, "m_settings")
    /\ LET tsk == tasks[i]
       IN  Apply(IF incognitoBlocked(tsk.tabv, tsk.s1)
                 THEN Finish(World, i, Thrown("Cannot mark incognito tabs as private when incognito mode is disabled"))
                 ELSE lockTab(MapSet(World, tsk.tab, newPrivateTab(tsk.tabv)), i, tsk.tab), i)
    /\ UNCHANGED <<browserTabs, loaded, bootTabs, now>>

\* lockTab after savePrivateTabs: the LOCK_TAB message
LockSaved(i) ==
    /\ Running(i, "l_save")
    /\ Apply([sendMessage(World, i, tasks[i].tab, "LOCK_TAB") EXCEPT !.tk[i].pc = "l_send"], i)
    /\ UNCHANGED <<browserTabs, loaded, bootTabs, now>>

LockSent(i) ==
    /\ Running(i, "l_send")
    /\ Apply(afterLockTab(World, i), i)
    /\ UNCHANGED <<browserTabs, loaded, bootTabs, now>>

\* setIncognitoMode's second loop: toggleTabPrivate(tabId, false) for each
\* tab it has collected, one after the other
unmarkNext(W, i) ==
    LET tabs == W.tk[i].incognitoTabs
    IN  IF tabs = <<>> THEN Finish(W, i, Ok)
        ELSE [toggleTabPrivate([W EXCEPT !.tk[i].incognitoTabs = Tail(tabs)],
                               i, Head(tabs), FALSE)
                EXCEPT !.tk[i].op = "incognitoMode"]

\* What each caller of toggleTabPrivate does when it returns
afterToggle(W, i) ==
    IF W.tk[i].op = "incognitoMode" THEN unmarkNext(W, i) ELSE Finish(W, i, Ok)

LockSendFailed_throws(i) ==
    /\ Running(i, "l_send")
    /\ Apply(Finish([World EXCEPT !.tk[i].failed = @ \cup {"LOCK_TAB"}], i,
                    Thrown("Could not establish connection")), i)
    /\ UNCHANGED <<browserTabs, loaded, bootTabs, now>>

\* chrome.tabs.sendMessage rejects (no content script in the tab, or the tab
\* is gone): lockTab's catch logs it and lockTab returns
LockSendFailed(i) ==
    /\ Running(i, "l_send")
    /\ Apply(afterLockTab([World EXCEPT !.tk[i].failed = @ \cup {"LOCK_TAB"}], i), i)
    /\ UNCHANGED <<browserTabs, loaded, bootTabs, now>>

\* toggleTabPrivate after its savePrivateTabs
ToggleSaved(i) ==
    /\ Running(i, "tp_save")
    /\ Apply(afterToggle(notifyTabStatusChanged(World, i), i), i)
    /\ UNCHANGED <<browserTabs, loaded, bootTabs, now>>

\* toggleTabPrivate(tabId, false)
StartUnmark(i, t) ==
    /\ FreeSlot(i)
    /\ Apply(toggleTabPrivate(Begin(World, i, "unmark", t), i, t, FALSE), i)
    /\ UNCHANGED <<browserTabs, loaded, bootTabs, now>>

UnmarkSent(i) ==
    /\ Running(i, "x_send")
    /\ Apply([savePrivateTabs(MapDelete(World, tasks[i].tab)) EXCEPT !.tk[i].pc = "tp_save"], i)
    /\ UNCHANGED <<browserTabs, loaded, bootTabs, now>>

\* chrome.tabs.sendMessage rejects: toggleTabPrivate's catch logs it, and the
\* record is deleted and the collection stored all the same
UnmarkSendFailed(i) ==
    /\ Running(i, "x_send")
    /\ Apply([savePrivateTabs(MapDelete(World, tasks[i].tab))
                EXCEPT !.tk[i].failed = @ \cup {"UNLOCK_TAB"}, !.tk[i].pc = "tp_save"], i)
    /\ UNCHANGED <<browserTabs, loaded, bootTabs, now>>

\* lockTab(tabId) called on its own
StartLock(i, t) ==
    /\ FreeSlot(i)
    /\ Apply(lockTab(Begin(World, i, "lock", t), i, t), i)
    /\ UNCHANGED <<browserTabs, loaded, bootTabs, now>>

\* unlockTab(tabId)
StartUnlock(i, t) ==
    /\ FreeSlot(i)
    /\ TimerRoom
    /\ Apply(unlockTab(Begin(World, i, "unlock", t), i, t), i)
    /\ UNCHANGED <<browserTabs, loaded, bootTabs, now>>

UnlockSaved(i) ==
    /\ Running(i, "u_save")
    /\ Apply(startSessionTimer(World, i, tasks[i].tab), i)
    /\ UNCHANGED <<browserTabs, loaded, bootTabs, now>>

\* startSessionTimer after getSettings
TimerGotSettings(i) ==
    /\ Running(i, "st_settings")
    /\ Apply(IF tasks[i].s1.autoLockTimeout = 0
             THEN afterStartSessionTimer(World, i)
             ELSE [World EXCEPT !.tk[i].s2 = storedSettings,
                                !.tk[i].pc = "sp_settings"], i)
    /\ UNCHANGED <<browserTabs, loaded, bootTabs, now>>

\* shouldPreventAutoLock after getSettings
PreventGotSettings(i) ==
    /\ Running(i, "sp_settings")
    /\ LET tsk == tasks[i]
           pt == privateTabs[tsk.tab]
       IN  Apply(IF ~pt.present
                 THEN afterStartSessionTimer(scheduleTimer(World, i), i)
                 ELSE IF tsk.s2.privateMode
                 THEN afterStartSessionTimer(World, i)
                 ELSE IF isUrlWhitelisted(pt.url, tsk.s2.whitelistedUrls)
                 THEN afterStartSessionTimer(World, i)
                 ELSE [World EXCEPT !.tk[i].tabv = tabsGet(tsk.tab),
                                    !.tk[i].pc = "sp_tab"], i)
    /\ UNCHANGED <<browserTabs, loaded, bootTabs, now>>

incognitoPreventsAutoLock_alwaysLockOnly(tab, settings) ==
    tab.ok /\ tab.incognito /\ settings.incognitoMode = "always-lock"

incognitoPreventsAutoLock(tab, settings) ==
    tab.ok /\ tab.incognito /\ settings.incognitoMode \in {"disabled", "always-lock"}

\* shouldPreventAutoLock after chrome.tabs.get
PreventGotTab(i) ==
    /\ Running(i, "sp_tab")
    /\ Apply(IF incognitoPreventsAutoLock(tasks[i].tabv, tasks[i].s2)
             THEN afterStartSessionTimer(World, i)
             ELSE afterStartSessionTimer(scheduleTimer(World, i), i), i)
    /\ UNCHANGED <<browserTabs, loaded, bootTabs, now>>

\* restartSessionTimers
StartRestart(i) ==
    /\ FreeSlot(i)
    /\ TimerRoom
    /\ Apply(restartLoop([Begin(World, i, "restart", 0) EXCEPT !.tk[i].itLive = TRUE], i), i)
    /\ UNCHANGED <<browserTabs, loaded, bootTabs, now>>

\* lockAllTabs
StartLockAll(i) ==
    /\ FreeSlot(i)
    /\ Apply(IF tabOrder = <<>>
             THEN Finish(Begin(World, i, "lockAll", 0), i, Ok)
             ELSE [lockEach(Begin(World, i, "lockAll", 0), i, tabOrder)
                     EXCEPT !.tk[i].pc = "la_wait"], i)
    /\ UNCHANGED <<browserTabs, loaded, bootTabs, now>>

\* lockAllTabs while the storage write of lockTab(bad) is refused: that
\* call's savePrivateTabs rejects and leaves the store as it is.
RECURSIVE lockEachBut(_, _, _, _)
lockEachBut(W, i, keys, bad) ==
    IF keys = <<>> THEN W
    ELSE LET t == Head(keys)
             W1 == IF t = bad
                   THEN [clearSessionTimer([W EXCEPT !.reg[t] = lockedTab(@)], t)
                           EXCEPT !.tk[i].sub[t] = "l_fail"]
                   ELSE [lockTabSync(W, t) EXCEPT !.tk[i].sub[t] = "l_save"]
         IN  lockEachBut(W1, i, Tail(keys), bad)

StartLockAllFailing(i, bad) ==
    /\ FreeSlot(i)
    /\ privateTabs[bad].present
    /\ Apply([lockEachBut(Begin(World, i, "lockAll", 0), i, tabOrder, bad)
                EXCEPT !.tk[i].pc = "la_wait"], i)
    /\ UNCHANGED <<browserTabs, loaded, bootTabs, now>>

\* clearAllSessionTimers
clearAllSessionTimers(W) ==
    [W EXCEPT !.pending = {x \in @ : \A t \in Tabs : W.timers[t] # x.id},
              !.timers = [t \in Tabs |-> 0]]

\* What follows `await this.lockAllTabs()`, or the await of Promise.all in
\* lockAllTabs itself: a rejected lockTab makes lockAllTabs throw.  The
\* invocation is followed until the last of its lockTab calls has ended.
afterLockAll(W, i) ==
    IF W.tk[i].res.kind = "error" THEN Finish(W, i, W.tk[i].res)
    ELSE IF W.tk[i].op = "privateMode" THEN Finish(clearAllSessionTimers(W), i, Ok)
    ELSE Finish(W, i, Ok)

AllEnded(tsk) == \A u \in Tabs : tsk.sub[u] \in {"none", "end"}

\* a lockTab of lockAllTabs whose savePrivateTabs has rejected
LockAllSaveFailed(i, t) ==
    /\ Running(i, "la_wait")
    /\ tasks[i].sub[t] = "l_fail"
    /\ LET W == [World EXCEPT !.tk[i].sub[t] = "end",
                              !.tk[i].res = Thrown("storage write failed")]
       IN  Apply(IF AllEnded(W.tk[i]) THEN afterLockAll(W, i) ELSE W, i)
    /\ UNCHANGED <<browserTabs, loaded, bootTabs, now>>

\* a lockTab of lockAllTabs after savePrivateTabs: the LOCK_TAB message
LockAllSaved(i, t) ==
    /\ Running(i, "la_wait")
    /\ tasks[i].sub[t] = "l_save"
    /\ Apply([sendMessage(World, i, t, "LOCK_TAB") EXCEPT !.tk[i].sub[t] = "l_send"], i)
    /\ UNCHANGED <<browserTabs, loaded, bootTabs, now>>

LockAllSent(i, t) ==
    /\ Running(i, "la_wait")
    /\ tasks[i].sub[t] = "l_send"
    /\ LET W == [World EXCEPT !.tk[i].sub[t] = "end"]
       IN  Apply(IF AllEnded(W.tk[i]) THEN afterLockAll(W, i) ELSE W, i)
    /\ UNCHANGED <<browserTabs, loaded, bootTabs, now>>

\* An unlockTab(t) made at this very time is still awaiting its storage
\* write or its session timer
unlockInFlight(t) ==
    /\ privateTabs[t].lastUnlocked = now
    /\ \E j \in Slots :
          /\ tasks[j].op \in {"unlock", "verify"}
          /\ tasks[j].tab = t
          /\ tasks[j].pc \in {"u_save", "st_settings", "sp_settings", "sp_tab"}

\* togglePrivateMode(enabled), up to updateSettings' await of getSettings
\* addWhitelistedUrl(pattern), removeWhitelistedUrl(pattern): getSettings
StartAddWhitelistedUrl(i, pattern) ==
    /\ FreeSlot(i)
    /\ Apply([Begin(World, i, "addWhitelistedUrl", 0)
                EXCEPT !.tk[i].patch = <<"whitelistedUrls", <<pattern>>>>,
                       !.tk[i].s1 = storedSettings,
                       !.tk[i].pc = "w_get"], i)
    /\ UNCHANGED <<browserTabs, loaded, bootTabs, now>>

StartRemoveWhitelistedUrl(i, pattern) ==
    /\ FreeSlot(i)
    /\ Apply([Begin(World, i, "removeWhitelistedUrl", 0)
                EXCEPT !.tk[i].patch = <<"whitelistedUrls", <<pattern>>>>,
                       !.tk[i].s1 = storedSettings,
                       !.tk[i].pc = "w_get"], i)
    /\ UNCHANGED <<browserTabs, loaded, bootTabs, now>>

\* The new list is computed from the settings just read; updateSettings
\* starts with its own getSettings
WhitelistGotSettings(i) ==
    /\ Running(i, "w_get")
    /\ LET tsk == tasks[i]
           pattern == tsk.patch[2][1]
           current == tsk.s1.whitelistedUrls
           newWhitelist == IF tsk.op = "addWhitelistedUrl"
                           THEN Append(current, pattern)
                           ELSE Without(current, pattern)
       IN  Apply(IF tsk.op = "addWhitelistedUrl"
                    /\ \E k \in 1..Len(current) : current[k] = pattern
                 THEN Finish(World, i, Ok)
                 ELSE [World EXCEPT !.tk[i].patch = <<"whitelistedUrls", newWhitelist>>,
                                    !.tk[i].s2 = storedSettings,
                                    !.tk[i].pc = "w_upd"], i)
    /\ UNCHANGED <<browserTabs, loaded, bootTabs, now>>

\* updateSettings after its getSettings: saveSettings(newSettings)
WhitelistRead(i) ==
    /\ Running(i, "w_upd")
    /\ Apply([World EXCEPT !.settings = Merge(tasks[i].s2, tasks[i].patch),
                           !.tk[i].pc = "w_set"], i)
    /\ UNCHANGED <<browserTabs, loaded, bootTabs, now>>

WhitelistSaved(i) ==
    /\ Running(i, "w_set")
    /\ Apply(Finish(World, i, Ok), i)
    /\ UNCHANGED <<browserTabs, loaded, bootTabs, now>>

StartPrivateMode(i, enabled) ==
    /\ FreeSlot(i)
    /\ TimerRoom
    /\ Apply([Begin(World, i, "privateMode", 0)
                EXCEPT !.tk[i].patch = <<"privateMode", enabled>>,
                       !.tk[i].s1 = storedSettings,
                       !.tk[i].pc = "pm_get"], i)
    /\ UNCHANGED <<browserTabs, loaded, bootTabs, now>>

\* updateSettings after getSettings: saveSettings(newSettings)
PrivateModeRead(i) ==
    /\ Running(i, "pm_get")
    /\ Apply([World EXCEPT !.settings = Merge(tasks[i].s1, tasks[i].patch),
                           !.tk[i].pc = "pm_set"], i)
    /\ UNCHANGED <<browserTabs, loaded, bootTabs, now>>

PrivateModeSaved_noRestart(i) ==
    /\ Running(i, "pm_set")
    /\ Apply(IF tasks[i].patch[2] /\ tabOrder # <<>>
             THEN [lockEach(World, i, tabOrder) EXCEPT !.tk[i].pc = "la_wait"]
             ELSE afterLockAll(World, i), i)
    /\ UNCHANGED <<browserTabs, loaded, bootTabs, now>>

\* togglePrivateMode after updateSettings: lockAllTabs, or
\* restartSessionTimers
PrivateModeSaved(i) ==
    /\ Running(i, "pm_set")
    /\ Apply(IF tasks[i].patch[2]
             THEN IF tabOrder = <<>> THEN afterLockAll(World, i)
                  ELSE [lockEach(World, i, tabOrder) EXCEPT !.tk[i].pc = "la_wait"]
             ELSE restartLoop([World EXCEPT !.tk[i].itLive = TRUE], i), i)
    /\ UNCHANGED <<browserTabs, loaded, bootTabs, now>>

\* setIncognitoMode(mode), up to updateSettings' await of getSettings
StartSetIncognitoMode(i, mode) ==
    /\ FreeSlot(i)
    /\ Apply([Begin(World, i, "incognitoMode", 0)
                EXCEPT !.tk[i].patch = <<"incognitoMode", mode>>,
                       !.tk[i].s1 = storedSettings,
                       !.tk[i].pc = "im_get"], i)
    /\ UNCHANGED <<browserTabs, loaded, bootTabs, now>>

\* updateSettings after getSettings: saveSettings(newSettings)
IncognitoModeRead(i) ==
    /\ Running(i, "im_get")
    /\ Apply([World EXCEPT !.settings = Merge(tasks[i].s1, tasks[i].patch),
                           !.tk[i].pc = "im_set"], i)
    /\ UNCHANGED <<browserTabs, loaded, bootTabs, now>>

\* setIncognitoMode's first loop, over this.privateTabs.entries(): the next
\* chrome.tabs.get, or the second loop when the iterator is exhausted
scanNext(W, i) ==
    LET tsk == W.tk[i]
    IN  IF tsk.itPos >= Len(W.order)
        THEN unmarkNext([W EXCEPT !.tk[i].itLive = FALSE, !.tk[i].itPos = 0], i)
        ELSE LET t == W.order[tsk.itPos + 1]
             IN  [W EXCEPT !.tk[i].itPos = @ + 1, !.tk[i].tab = t,
                           !.tk[i].tabv = tabsGet(t), !.tk[i].pc = "im_tab"]

\* setIncognitoMode after updateSettings
IncognitoModeSaved(i) ==
    /\ Running(i, "im_set")
    /\ Apply(IF tasks[i].patch[2] = "disabled"
             THEN scanNext([World EXCEPT !.tk[i].itLive = TRUE], i)
             ELSE Finish(World, i, Ok), i)
    /\ UNCHANGED <<browserTabs, loaded, bootTabs, now>>

\* setIncognitoMode after chrome.tabs.get: a tab that is gone is skipped
IncognitoModeGotTab(i) ==
    /\ Running(i, "im_tab")
    /\ LET tsk == tasks[i]
       IN  Apply(scanNext(IF tsk.tabv.ok /\ tsk.tabv.incognito
                          THEN [World EXCEPT !.tk[i].incognitoTabs = Append(@, tsk.tab)]
                          ELSE World, i), i)
    /\ UNCHANGED <<browserTabs, loaded, bootTabs, now>>

\* chrome.tabs.onActivated -> handleTabActivated
EvActivated(i, t) ==
    /\ FreeSlot(i)
    /\ browserTabs[t].open
    /\ LET W == [Begin(World, i, "activated", t) EXCEPT !.tk[i].amid = unlockInFlight(t)]
       IN  Apply(IF privateTabs[t].present /\ ~privateTabs[t].isLocked
                 THEN [W EXCEPT !.tk[i].s1 = storedSettings, !.tk[i].pc = "a_settings"]
                 ELSE Finish(W, i, Ok), i)
    /\ UNCHANGED <<browserTabs, loaded, bootTabs, now>>

ActivatedGotSettings_ignoresSetting(i) ==
    /\ Running(i, "a_settings")
    /\ Apply(lockTab(World, i, tasks[i].tab), i)
    /\ UNCHANGED <<browserTabs, loaded, bootTabs, now>>

\* handleTabActivated after getSettings
ActivatedGotSettings(i) ==
    /\ Running(i, "a_settings")
    /\ Apply(IF tasks[i].s1.lockOnTabSwitch
             THEN lockTab(World, i, tasks[i].tab)
             ELSE Finish(World, i, Ok), i)
    /\ UNCHANGED <<browserTabs, loaded, bootTabs, now>>

\* The tab closes: chrome.tabs.onRemoved -> handleTabRemoved
EvRemoved(i, t) ==
    /\ FreeSlot(i)
    /\ browserTabs[t].open
    /\ browserTabs' = [browserTabs EXCEPT ![t].open = FALSE]
    /\ LET W == Begin(World, i, "removed", t)
       IN  Apply(IF privateTabs[t].present
                 THEN [savePrivateTabs(MapDelete(W, t)) EXCEPT !.tk[i].pc = "r_save"]
                 ELSE Finish(W, i, Ok), i)
    /\ UNCHANGED <<loaded, bootTabs, now>>

RemovedSaved_keepsTimer(i) ==
    /\ Running(i, "r_save")
    /\ Apply(Finish(World, i, Ok), i)
    /\ UNCHANGED <<browserTabs, loaded, bootTabs, now>>

\* handleTabRemoved after savePrivateTabs: clearSessionTimer
RemovedSaved(i) ==
    /\ Running(i, "r_save")
    /\ Apply(Finish(clearSessionTimer(World, tasks[i].tab), i, Ok), i)
    /\ UNCHANGED <<browserTabs, loaded, bootTabs, now>>

\* The tab finishes loading a page: chrome.tabs.onUpdated with status
\* 'complete' -> handleTabUpdated(tabId, tab)
EvUpdated(i, t, page) ==
    /\ FreeSlot(i)
    /\ browserTabs[t].open
    /\ browserTabs' = [browserTabs EXCEPT ![t].page = page]
    /\ LET W == Begin(World, i, "updated", t)
           pt == privateTabs[t]
       IN  Apply(IF pt.present
                 THEN [savePrivateTabs([W EXCEPT
                            !.reg[t].url = IF page.url = <<>> THEN pt.url ELSE page.url,
                            !.reg[t].title = IF page.title = "" THEN pt.title ELSE page.title])
                         EXCEPT !.tk[i].ptLive = TRUE, !.tk[i].pc = "n_save"]
                 ELSE Finish(W, i, Ok), i)
    /\ UNCHANGED <<loaded, bootTabs, now>>

UpdatedSaved_neverRelocks(i) ==
    /\ Running(i, "n_save")
    /\ Apply(Finish(World, i, Ok), i)
    /\ UNCHANGED <<browserTabs, loaded, bootTabs, now>>

\* handleTabUpdated after savePrivateTabs: lockTab if the record is locked
UpdatedSaved(i) ==
    /\ Running(i, "n_save")
    /\ LET tsk == tasks[i]
           isLocked == IF tsk.ptLive THEN privateTabs[tsk.tab].isLocked ELSE tsk.ptLocked
       IN  Apply(IF isLocked THEN lockTab(World, i, tsk.tab)
                 ELSE Finish(World, i, Ok), i)
    /\ UNCHANGED <<browserTabs, loaded, bootTabs, now>>

FireTimer_ignoresLock(i, x) ==
    /\ FreeSlot(i)
    /\ x \in pendingTimers
    /\ now >= x.due
    /\ LET W == [Begin(World, i, "timer", x.tab)
                   EXCEPT !.pending = @ \ {x},
                          !.tk[i].s1.showNotifications = x.notify]
       IN  Apply(IF privateTabs[x.tab].present
                 THEN lockTab(W, i, x.tab)
                 ELSE timerCallbackEnd(W, i), i)
    /\ UNCHANGED <<browserTabs, loaded, bootTabs, now>>

\* A session timeout comes due: the callback given to setTimeout
FireTimer(i, x) ==
    /\ FreeSlot(i)
    /\ x \in pendingTimers
    /\ now >= x.due
    /\ LET W == [Begin(World, i, "timer", x.tab)
                   EXCEPT !.pending = @ \ {x},
                          !.tk[i].s1.showNotifications = x.notify]
           pt == privateTabs[x.tab]
       IN  Apply(IF pt.present /\ ~pt.isLocked
                 THEN lockTab(W, i, x.tab)
                 ELSE timerCallbackEnd(W, i), i)
    /\ UNCHANGED <<browserTabs, loaded, bootTabs, now>>

\* the callback after chrome.notifications.create
TimerNotified(i) ==
    /\ Running(i, "t_notify")
    /\ Apply(timerCallbackEnd(World, i), i)
    /\ UNCHANGED <<browserTabs, loaded, bootTabs, now>>


\* chrome.notifications.create rejects: the callback's catch logs it
TimerNotifyFailed(i) ==
    /\ Running(i, "t_notify")
    /\ Apply(timerCallbackEnd([World EXCEPT !.tk[i].failed = @ \cup {"notification"}], i), i)
    /\ UNCHANGED <<browserTabs, loaded, bootTabs, now>>


\* ---------------------------------------------------------- CryptoService
\* atob: the stored salt has to be base64
ValidBase64(salt) == salt \in Salts

\* hashPassword(password, salt): PBKDF2 is a function of the password and
\* the salt, and different inputs give different digests.
hashPassword(password, salt) ==
    [present |-> TRUE, hash |-> <<password, salt>>, salt |-> salt,
     iterations |-> Pbkdf2Iterations]

verifyPassword_freshSalt(password, h) ==
    hashPassword(password, "bmV3c2FsdA==").hash = h.hash

\* verifyPassword(password, storedHash, storedSalt, iterations)
verifyPassword(password, h) ==
    IF ~ValidBase64(h.salt) THEN FALSE
    ELSE hashPassword(password, h.salt).hash = h.hash

\* ---------------------------------------------------------- MessageHandler
\* Who sends a message: the extension's popup, the content script of a tab's
\* top frame, a script in a sub-frame, another extension.
Popup == [id |-> "self", url |-> "chrome-extension://self", tab |-> 0, frameId |-> Absent]
ContentScript(t) == [id |-> "self", url |-> "https://page", tab |-> t, frameId |-> 0]
SubFrame(t) == [id |-> "self", url |-> "https://page", tab |-> t, frameId |-> 1]
Foreign == [id |-> "other", url |-> "chrome-extension://other", tab |-> 0, frameId |-> Absent]
Senders == {Popup, Foreign} \cup {ContentScript(t) : t \in Tabs} \cup {SubFrame(t) : t \in Tabs}

isValidMessageSource_anyFrame(sender) ==
    IF sender.id # "self" THEN FALSE
    ELSE IF sender.url = "chrome-extension://self" THEN TRUE
    ELSE sender.tab # 0

isValidMessageSource(sender) ==
    IF sender.id # "self" THEN FALSE
    ELSE IF sender.url = "chrome-extension://self" THEN TRUE
    ELSE sender.tab # 0 /\ sender.frameId \in {0, Absent}

\* A message arrives: handleMessage up to its switch
Receive(W, i, op, sender) ==
    [Begin(W, i, op, sender.tab) EXCEPT !.tk[i].via = "message", !.tk[i].from = sender]

\* this.passwordAttempts.get(tabId) || { count: 0, lastAttempt: 0 }
NewObject(W) ==
    CHOOSE o \in ObjIds :
        /\ o \notin Referenced(W.att, W.tk)
        /\ \A p \in 1..(o - 1) : p \in Referenced(W.att, W.tk)

rateLimited_afterSix(attempts, at) ==
    attempts.count > MaxAttempts /\ at - attempts.lastAttempt < LockoutMs

\* attempts.count >= 5 && now - attempts.lastAttempt < 300000
rateLimited(attempts, at) ==
    attempts.count >= MaxAttempts /\ at - attempts.lastAttempt < LockoutMs

failedAttempt_keepsTime(attempts, at) ==
    [count |-> attempts.count + 1, lastAttempt |-> attempts.lastAttempt]

\* attempts.count += 1; attempts.lastAttempt = now
failedAttempt(attempts, at) ==
    [count |-> attempts.count + 1, lastAttempt |-> at]

\* handleVerifyPassword, up to its await of getMasterPasswordHash
handleVerifyPassword(W, i, password, t) ==
    LET ref == IF W.att[t] # 0 THEN W.att[t] ELSE NewObject(W)
        attempts == IF W.att[t] # 0 THEN W.objs[ref] ELSE NoAttempts
        W1 == [W EXCEPT !.objs[ref] = attempts, !.tk[i].ref = ref,
                        !.tk[i].seen = attempts,
                        !.tk[i].pw = password, !.tk[i].t0 = now]
    IN  IF rateLimited(attempts, now)
        THEN Finish(W1, i, Reply(FALSE, attempts.count, ""))
        ELSE [W1 EXCEPT !.tk[i].hashv = W.hash, !.tk[i].pc = "v_hash"]

\* VERIFY_PASSWORD
MsgVerifyPassword(i, sender, password) ==
    /\ FreeSlot(i)
    /\ TimerRoom
    /\ LET W == Receive(World, i, "verify", sender)
       IN  Apply(IF ~isValidMessageSource(sender)
                 THEN Finish(W, i, ErrorResult("Invalid message source"))
                 ELSE IF sender.tab = 0
                 THEN Finish(W, i, Reply(FALSE, Absent, "Invalid tab"))
                 ELSE handleVerifyPassword(W, i, password, sender.tab), i)
    /\ UNCHANGED <<browserTabs, loaded, bootTabs, now>>

\* handleVerifyPassword after getMasterPasswordHash
VerifyGotHash(i) ==
    /\ Running(i, "v_hash")
    /\ Apply(IF ~tasks[i].hashv.present
             THEN Finish(World, i, Reply(FALSE, Absent, ""))
             ELSE [World EXCEPT !.tk[i].consulted = TRUE, !.tk[i].pc = "v_crypto"], i)
    /\ UNCHANGED <<browserTabs, loaded, bootTabs, now>>

\* handleVerifyPassword after CryptoService.verifyPassword
VerifyChecked_unlocksAnyway(i) ==
    /\ Running(i, "v_crypto")
    /\ Apply(unlockTab([World EXCEPT !.att[tasks[i].tab] = 0], i, tasks[i].tab), i)
    /\ UNCHANGED <<browserTabs, loaded, bootTabs, now>>

VerifyChecked(i) ==
    /\ Running(i, "v_crypto")
    /\ LET tsk == tasks[i]
           t == tsk.tab
           attempts == failedAttempt(attemptObjs[tsk.ref], tsk.t0)
       IN  Apply(IF verifyPassword(tsk.pw, tsk.hashv)
                 THEN unlockTab([World EXCEPT !.att[t] = 0], i, t)
                 ELSE Finish([World EXCEPT !.objs[tsk.ref] = attempts,
                                           !.att[t] = tsk.ref],
                             i, Reply(FALSE, attempts.count, "")), i)
    /\ UNCHANGED <<browserTabs, loaded, bootTabs, now>>

\* MARK_TAB_PRIVATE
MsgMarkTabPrivate(i, sender, t, isPrivate) ==
    /\ FreeSlot(i)
    /\ LET W == Receive(World, i, "mark", sender)
       IN  Apply(IF ~isValidMessageSource(sender)
                 THEN Finish(W, i, ErrorResult("Invalid message source"))
                 ELSE toggleTabPrivate(W, i, t, isPrivate), i)
    /\ UNCHANGED <<browserTabs, loaded, bootTabs, now>>

\* SET_MASTER_PASSWORD: handleSetMasterPassword up to its await of
\* hasMasterPassword
MsgSetMasterPassword(i, sender, password) ==
    /\ FreeSlot(i)
    /\ LET W == Receive(World, i, "setPassword", sender)
       IN  Apply(IF ~isValidMessageSource(sender)
                 THEN Finish(W, i, ErrorResult("Invalid message source"))
                 ELSE [W EXCEPT !.tk[i].pw = password, !.tk[i].hashv = W.hash,
                                !.tk[i].pc = "p_has"], i)
    /\ UNCHANGED <<browserTabs, loaded, bootTabs, now>>

\* CryptoService.validatePassword
validatePassword(password) ==
    IF Len(password) < PasswordMinLength
    THEN [valid |-> FALSE, error |-> "Password must be at least 1 characters"]
    ELSE IF Len(password) > PasswordMaxLength
    THEN [valid |-> FALSE, error |-> "Password is too long"]
    ELSE [valid |-> TRUE, error |-> ""]

\* handleSetMasterPassword after hasMasterPassword: generateSalt draws the
\* salt, and hashPassword awaits the digest
SetPasswordChecked(i, salt) ==
    /\ Running(i, "p_has")
    /\ LET tsk == tasks[i]
       IN  Apply(IF tsk.hashv.present
                 THEN Finish(World, i, Reply(FALSE, Absent, "Master password already set"))
                 ELSE IF ~validatePassword(PasswordText(tsk.pw)).valid
                 THEN Finish(World, i, Reply(FALSE, Absent,
                                             validatePassword(PasswordText(tsk.pw)).error))
                 ELSE [World EXCEPT !.tk[i].hashv = hashPassword(tsk.pw, salt),
                                    !.tk[i].pc = "p_hash"], i)
    /\ UNCHANGED <<browserTabs, loaded, bootTabs, now>>

\* handleSetMasterPassword after hashPassword: saveMasterPasswordHash
SetPasswordHashed(i) ==
    /\ Running(i, "p_hash")
    /\ Apply([World EXCEPT !.hash = tasks[i].hashv, !.tk[i].pc = "p_save"], i)
    /\ UNCHANGED <<browserTabs, loaded, bootTabs, now>>

SetPasswordSaved(i) ==
    /\ Running(i, "p_save")
    /\ Apply(Finish(World, i, Reply(TRUE, Absent, "")), i)
    /\ UNCHANGED <<browserTabs, loaded, bootTabs, now>>

\* UPDATE_SETTINGS: storageManager.updateSettings(partial) reads the stored
\* settings, ...
MsgUpdateSettings(i, sender, patch) ==
    /\ FreeSlot(i)
    /\ LET W == Receive(World, i, "updateSettings", sender)
       IN  Apply(IF ~isValidMessageSource(sender)
                 THEN Finish(W, i, ErrorResult("Invalid message source"))
                 ELSE [W EXCEPT !.tk[i].patch = patch, !.tk[i].s1 = W.settings,
                                !.tk[i].pc = "s_get"], i)
    /\ UNCHANGED <<browserTabs, loaded, bootTabs, now>>

\* ... writes them back with the partial object merged in, ...
SettingsRead(i) ==
    /\ Running(i, "s_get")
    /\ LET updated == Merge(tasks[i].s1, tasks[i].patch)
       IN  Apply([World EXCEPT !.settings = updated, !.tk[i].s2 = updated,
                               !.tk[i].pc = "s_set"], i)
    /\ UNCHANGED <<browserTabs, loaded, bootTabs, now>>

\* ... and returns them: { settings: updatedSettings }
SettingsSaved(i) ==
    /\ Running(i, "s_set")
    /\ Apply(Finish(World, i, Answer("settings")), i)
    /\ UNCHANGED <<browserTabs, loaded, bootTabs, now>>

\* The attempt counter of the sender's tab as it is when a request arrives
counterAt(W, sender) ==
    IF sender.tab = 0 \/ W.att[sender.tab] = 0 THEN NoAttempts
    ELSE W.objs[W.att[sender.tab]]

\* handleVerifyMasterPassword, up to its await of getMasterPasswordHash
handleVerifyMasterPassword(W, i, password) ==
    [W EXCEPT !.tk[i].pw = password, !.tk[i].hashv = W.hash,
              !.tk[i].seen = counterAt(W, W.tk[i].from), !.tk[i].t0 = now,
              !.tk[i].pc = "vm_hash"]

\* VERIFY_MASTER_PASSWORD
MsgVerifyMasterPassword(i, sender, password) ==
    /\ FreeSlot(i)
    /\ LET W == Receive(World, i, "verifyMaster", sender)
       IN  Apply(IF ~isValidMessageSource(sender)
                 THEN Finish(W, i, ErrorResult("Invalid message source"))
                 ELSE handleVerifyMasterPassword(W, i, password), i)
    /\ UNCHANGED <<browserTabs, loaded, bootTabs, now>>

\* CHANGE_MASTER_PASSWORD: handleChangeMasterPassword starts with
\* handleVerifyMasterPassword(currentPassword)
MsgChangeMasterPassword(i, sender, currentPassword, newPassword) ==
    /\ FreeSlot(i)
    /\ LET W == Receive(World, i, "changePassword", sender)
       IN  Apply(IF ~isValidMessageSource(sender)
                 THEN Finish(W, i, ErrorResult("Invalid message source"))
                 ELSE handleVerifyMasterPassword(
                          [W EXCEPT !.tk[i].newPassword = newPassword], i, currentPassword), i)
    /\ UNCHANGED <<browserTabs, loaded, bootTabs, now>>

\* What each caller of handleVerifyMasterPassword does with { success }
afterVerifyMaster(W, i, success, salt) ==
    LET tsk == W.tk[i]
        validation == validatePassword(PasswordText(tsk.newPassword))
    IN  IF tsk.op = "verifyMaster" THEN Finish(W, i, Reply(success, Absent, ""))
        ELSE IF ~success
        THEN Finish(W, i, Reply(FALSE, Absent, "Current password is incorrect"))
        ELSE IF ~validation.valid
        THEN Finish(W, i, Reply(FALSE, Absent, validation.error))
        ELSE [W EXCEPT !.tk[i].hashv = hashPassword(tsk.newPassword, salt),
                       !.tk[i].pc = "p_hash"]

\* handleVerifyMasterPassword after getMasterPasswordHash
MasterGotHash(i, salt) ==
    /\ Running(i, "vm_hash")
    /\ Apply(IF ~tasks[i].hashv.present
             THEN afterVerifyMaster(World, i, FALSE, salt)
             ELSE [World EXCEPT !.tk[i].consulted = TRUE, !.tk[i].pc = "vm_crypto"], i)
    /\ UNCHANGED <<browserTabs, loaded, bootTabs, now>>

\* handleVerifyMasterPassword after CryptoService.verifyPassword
MasterChecked(i, salt) ==
    /\ Running(i, "vm_crypto")
    /\ Apply(afterVerifyMaster(World, i, verifyPassword(tasks[i].pw, tasks[i].hashv), salt), i)
    /\ UNCHANGED <<browserTabs, loaded, bootTabs, now>>

\* LOCK_ALL_TABS
MsgLockAllTabs(i, sender) ==
    /\ FreeSlot(i)
    /\ LET W == Receive(World, i, "lockAll", sender)
       IN  Apply(IF ~isValidMessageSource(sender)
                 THEN Finish(W, i, ErrorResult("Invalid message source"))
                 ELSE IF tabOrder = <<>> THEN Finish(W, i, Ok)
                 ELSE [lockEach(W, i, tabOrder) EXCEPT !.tk[i].pc = "la_wait"], i)
    /\ UNCHANGED <<browserTabs, loaded, bootTabs, now>>

\* The requests that only read, and what they answer with
QueryTypes == {"GET_PRIVATE_TABS", "GET_CURRENT_TAB_STATUS", "GET_SETTINGS",
               "TAB_LOCKED", "TAB_UNLOCKED", "REQUEST_LOCK_STATUS"}

queryAnswer(type) ==
    CASE type = "GET_PRIVATE_TABS" -> Answer("tabs")
      [] type \in {"GET_CURRENT_TAB_STATUS", "REQUEST_LOCK_STATUS"} -> Answer("status")
      [] type = "GET_SETTINGS" -> Answer("settings")
      [] OTHER -> Reply(TRUE, Absent, "")

\* GET_PRIVATE_TABS, GET_CURRENT_TAB_STATUS, TAB_LOCKED, TAB_UNLOCKED,
\* REQUEST_LOCK_STATUS answer from memory; GET_SETTINGS awaits the store; any
\* other type is the switch's default.
MsgOther(i, sender, type) ==
    /\ FreeSlot(i)
    /\ LET W == [Receive(World, i, "other", sender) EXCEPT !.tk[i].type = type]
       IN  Apply(IF ~isValidMessageSource(sender)
                 THEN Finish(W, i, ErrorResult("Invalid message source"))
                 ELSE IF type \notin QueryTypes
                 THEN Finish(W, i, ErrorResult("Unknown message type"))
                 ELSE IF type = "GET_SETTINGS"
                 THEN [W EXCEPT !.tk[i].s1 = W.settings, !.tk[i].pc = "g_get"]
                 ELSE Finish(W, i, queryAnswer(type)), i)
    /\ UNCHANGED <<browserTabs, loaded, bootTabs, now>>

\* GET_SETTINGS after getSettings
GotSettings(i) ==
    /\ Running(i, "g_get")
    /\ Apply(Finish(World, i, queryAnswer(tasks[i].type)), i)
    /\ UNCHANGED <<browserTabs, loaded, bootTabs, now>>

\* A chrome.storage.local.get that a handler awaits rejects: the handler
\* throws at that await.
StorageReads == {"m_settings", "s_get", "p_has", "v_hash", "vm_hash", "g_get"}

StorageReadFailed(i) ==
    /\ NoneDone
    /\ tasks[i].pc \in StorageReads
    /\ Apply(Finish(World, i, Thrown("Storage error")), i)
    /\ UNCHANGED <<browserTabs, loaded, bootTabs, now>>

\* chrome.commands.onCommand 'toggle-private': chrome.tabs.query answers
\* with the active tab, which is any of the open ones.
CmdTogglePrivate(i, t) ==
    /\ FreeSlot(i)
    /\ browserTabs[t].open
    /\ Apply([Begin(World, i, "command", t) EXCEPT !.tk[i].via = "command",
                                                   !.tk[i].pc = "c_query"], i)
    /\ UNCHANGED <<browserTabs, loaded, bootTabs, now>>

CmdGotTab(i) ==
    /\ Running(i, "c_query")
    /\ LET t == tasks[i].tab
       IN  Apply(toggleTabPrivate(World, i, t, ~privateTabs[t].present), i)
    /\ UNCHANGED <<browserTabs, loaded, bootTabs, now>>


\* TabManager.initialize resumes from getPrivateTabs: a new Map replaces the
\* one the constructor made, in the order of Object.entries (ascending ids).
RECURSIVE KeysFrom(_, _)
KeysFrom(reg, t) ==
    IF t > NumTabs THEN <<>>
    ELSE (IF reg[t].present THEN <<t>> ELSE <<>>) \o KeysFrom(reg, t + 1)

restartEligible(r) == ~r.isLocked /\ Truthy(r.lastUnlocked)

Load ==
    /\ ~loaded
    /\ NoneDone
    /\ loaded' = TRUE
    /\ privateTabs' = bootTabs
    /\ tabOrder' = KeysFrom(bootTabs, 1)
    /\ bootTabs' = [t \in Tabs |-> NoTab]
    /\ tasks' = [j \in Slots |->
          LET tsk == tasks[j]
              rest == SubSeq(tabOrder, tsk.itPos + 1, Len(tabOrder))
          IN  IF tsk.op = "idle" THEN tsk
              ELSE [tsk EXCEPT
                      !.solo = FALSE,
                      !.pre = NoSnapshot,
                      !.ptLive = FALSE,
                      !.ptLocked = IF tsk.ptLive THEN privateTabs[tsk.tab].isLocked ELSE @,
                      !.itLive = FALSE,
                      !.itPos = 0,
                      !.itRest = IF tsk.itLive
                                 THEN SelectSeq(rest, LAMBDA u : restartEligible(privateTabs[u]))
                                 ELSE @]]
    /\ UNCHANGED <<sessionTimers, pendingTimers, storedTabs, storedSettings, storedHash,
                   passwordAttempts, attemptObjs, browserTabs, now>>

\* ------------------------------------------------------------------- Init
StoredCredential == hashPassword("Sn0wman!", "c2FsdA==")

FirstPage == [url |-> UrlTrustedPage, title |-> "Trusted"]

InitCommon(open) ==
    /\ sessionTimers = [t \in Tabs |-> 0]
    /\ pendingTimers = {}
    /\ passwordAttempts = [t \in Tabs |-> 0]
    /\ attemptObjs = [o \in ObjIds |-> NoAttempts]
    /\ browserTabs = [t \in Tabs |-> [open |-> t \in open, page |-> FirstPage]]
    /\ tasks = [j \in Slots |-> IdleTask]
    /\ now = MsPerMinute

\* A record an earlier run of the service worker left in the store
unlockedEarlier == [present |-> TRUE, url |-> UrlTrustedPage, title |-> "Trusted",
                    isLocked |-> FALSE, lastUnlocked |-> 1]

\* The service worker has just been constructed: initialize is suspended in
\* its storage read; the store holds what an earlier run left.  One tab is
\* open, and invocations overlap.
Init ==
    /\ InitCommon(1..BusyTabs)
    /\ storedSettings = BaseSettings
    /\ storedHash = StoredCredential
    /\ storedTabs \in {[t \in Tabs |-> NoTab],
                       [t \in Tabs |-> IF t \in 1..BusyTabs THEN unlockedEarlier ELSE NoTab]}
    /\ bootTabs = storedTabs
    /\ loaded = FALSE
    /\ privateTabs = [t \in Tabs |-> NoTab]
    /\ tabOrder = <<>>

\* initialize has finished on an empty store
Loaded ==
    /\ storedTabs = [t \in Tabs |-> NoTab]
    /\ bootTabs = storedTabs
    /\ loaded = TRUE
    /\ privateTabs = storedTabs
    /\ tabOrder = <<>>

\* Every tab is open, and one invocation runs at a time.
InitSeq ==
    /\ InitCommon(Tabs)
    /\ Loaded
    /\ storedSettings \in {BaseSettings,
                           [BaseSettings EXCEPT !.autoLockTimeout = 0],
                           [BaseSettings EXCEPT !.lockOnTabSwitch = FALSE],
                           [BaseSettings EXCEPT !.showNotifications = FALSE],
                           [BaseSettings EXCEPT !.lockingEnabled = FALSE]}
    /\ storedHash = StoredCredential

\* Every tab is open, the settings are the base ones
InitPolicy ==
    /\ InitCommon(Tabs)
    /\ Loaded
    /\ storedSettings = BaseSettings
    /\ storedHash = StoredCredential

\* A record toggleTabPrivate made and nobody has unlocked
markedTab == [present |-> TRUE, url |-> UrlTrustedPage, title |-> "Trusted",
              isLocked |-> TRUE, lastUnlocked |-> Absent]

\* The first tab is private and locked, the others are not private; auto-lock
\* is off; there may be no master password.
InitRouter ==
    /\ InitCommon(Tabs)
    /\ loaded = TRUE
    /\ privateTabs = [t \in Tabs |-> IF t = 1 THEN markedTab ELSE NoTab]
    /\ tabOrder = <<1>>
    /\ storedTabs = privateTabs
    /\ bootTabs = [t \in Tabs |-> NoTab]
    /\ storedSettings = [BaseSettings EXCEPT !.autoLockTimeout = 0]
    /\ storedHash \in {NoHash, StoredCredential}

\* A fresh installation: nothing is private and no master password is set.
InitSetup ==
    /\ InitCommon(Tabs)
    /\ Loaded
    /\ storedSettings = BaseSettings
    /\ storedHash = NoHash

\* ------------------------------------------------------------------- Next
EngineStarts(i, about) ==
    \/ \E t \in about : StartMark(i, t)
    \/ \E t \in about : StartUnmark(i, t)
    \/ \E t \in about : StartLock(i, t)
    \/ \E t \in about : StartUnlock(i, t)
    \/ StartLockAll(i)
    \/ StartRestart(i)
    \/ \E t \in about : EvActivated(i, t)
    \/ \E t \in about : EvRemoved(i, t)
    \/ \E t \in about, page \in Pages : EvUpdated(i, t, page)
    \/ \E x \in pendingTimers : FireTimer(i, x)

EngineSteps(i) ==
    \/ MarkGotTab(i)
    \/ MarkGotSettings(i)
    \/ LockSaved(i)
    \/ LockSent(i)
    \/ ToggleSaved(i)
    \/ UnmarkSent(i)
    \/ UnlockSaved(i)
    \/ TimerGotSettings(i)
    \/ PreventGotSettings(i)
    \/ PreventGotTab(i)
    \/ \E t \in Tabs : LockAllSaved(i, t)
    \/ \E t \in Tabs : LockAllSent(i, t)
    \/ ActivatedGotSettings(i)
    \/ RemovedSaved(i)
    \/ UpdatedSaved(i)
    \/ TimerNotified(i)
    \/ Retire(i)

VerifySteps(i) ==
    \/ VerifyGotHash(i)
    \/ VerifyChecked(i)
    \/ UnlockSaved(i)
    \/ TimerGotSettings(i)
    \/ ActivatedGotSettings(i)
    \/ LockSaved(i)
    \/ LockSent(i)
    \/ Retire(i)

SetupStarts(i) ==
    \/ \E sender \in Senders, t \in Tabs, isPrivate \in BOOLEAN :
          MsgMarkTabPrivate(i, sender, t, isPrivate)
    \/ \E t \in Tabs : CmdTogglePrivate(i, t)
    \/ \E sender \in Senders, pw \in Passwords : MsgSetMasterPassword(i, sender, pw)

SetupSteps(i) ==
    \/ CmdGotTab(i)
    \/ MarkGotTab(i)
    \/ MarkGotSettings(i)
    \/ LockSaved(i)
    \/ LockSent(i)
    \/ ToggleSaved(i)
    \/ UnmarkSent(i)
    \/ \E salt \in Salts : SetPasswordChecked(i, salt)
    \/ SetPasswordHashed(i)
    \/ SetPasswordSaved(i)
    \/ Retire(i)

Quiet == InFlight(tasks) = {}

LastMinute == (1 + MaxMinutes) * MsPerMinute
LastHalfLockout == MsPerMinute + MaxHalfLockouts * (LockoutMs \div 2)

\* Overlapping invocations of the engine, around the service worker's start
Next ==
    \/ \E i \in Slots : EngineStarts(i, 1..BusyTabs)
    \/ \E i \in Slots : EngineSteps(i)
    \/ Load
    \/ Tick(MsPerMinute, LastMinute)

Spec == Init /\ [][Next]_vars

\* The engine's operations one after another, under each policy
NextSeq ==
    \/ Quiet /\ EngineStarts(1, Tabs)
    \/ \E i \in Slots : EngineSteps(i)
    \/ Tick(MsPerMinute, LastMinute)

SpecSeq == InitSeq /\ [][NextSeq]_vars

\* The same while the content script or the notification service fails
FaultSteps(i) ==
    \/ LockSendFailed(i)
    \/ UnmarkSendFailed(i)
    \/ TimerNotifyFailed(i)

NextFaults ==
    \/ NextSeq
    \/ \E i \in Slots : FaultSteps(i)

SpecFaults == InitSeq /\ [][NextFaults]_vars

\* Marking, locking, unlocking, navigation and timeouts one after another,
\* with the settings page changing the policy in between
PolicyStarts(i) ==
    \/ \E t \in Tabs : StartMark(i, t)
    \/ \E t \in Tabs : StartLock(i, t)
    \/ \E t \in Tabs : StartUnlock(i, t)
    \/ \E t \in Tabs, page \in Pages : EvUpdated(i, t, page)
    \/ \E x \in pendingTimers : FireTimer(i, x)
    \/ \E patch \in Patches : MsgUpdateSettings(i, Popup, patch)

PolicySteps(i) ==
    \/ MarkGotTab(i)
    \/ MarkGotSettings(i)
    \/ LockSaved(i)
    \/ LockSent(i)
    \/ ToggleSaved(i)
    \/ UnlockSaved(i)
    \/ TimerGotSettings(i)
    \/ PreventGotSettings(i)
    \/ PreventGotTab(i)
    \/ UpdatedSaved(i)
    \/ TimerNotified(i)
    \/ SettingsRead(i)
    \/ SettingsSaved(i)
    \/ Retire(i)

NextPolicy ==
    \/ Quiet /\ PolicyStarts(1)
    \/ \E i \in Slots : PolicySteps(i)
    \/ Tick(MsPerMinute, LastMinute)

SpecPolicy == InitPolicy /\ [][NextPolicy]_vars

\* The same under the default policy, with the scheduling the event loop
\* gives: the clock advances, a storage or tabs call comes back, and a
\* timeout that is due gets its turn.
InitLive ==
    /\ InitCommon(Tabs)
    /\ Loaded
    /\ storedSettings \in {BaseSettings, [BaseSettings EXCEPT !.showNotifications = FALSE]}
    /\ storedHash = StoredCredential

Fairness ==
    /\ SF_vars(Tick(MsPerMinute, LastMinute))
    /\ \A i \in Slots : WF_vars(EngineSteps(i))
    /\ \A t \in Tabs : SF_vars(\E x \in pendingTimers : x.tab = t /\ FireTimer(1, x))

SpecLive == InitLive /\ [][NextSeq]_vars /\ Fairness

\* Password attempts one after another, over several lockout periods
NextRouter ==
    \/ Quiet /\ \E sender \in Senders, pw \in Passwords : MsgVerifyPassword(1, sender, pw)
    \/ Quiet /\ \E t \in Tabs : EvActivated(1, t)
    \/ \E i \in Slots : VerifySteps(i)
    \/ Tick(LockoutMs \div 2, LastHalfLockout)

SpecRouter == InitRouter /\ [][NextRouter]_vars

\* A fresh installation: marking by message and by keyboard command, and
\* setting the master password, one after another
NextSetup ==
    \/ Quiet /\ SetupStarts(1)
    \/ \E i \in Slots : SetupSteps(i)

SpecSetup == InitSetup /\ [][NextSetup]_vars

\* lockAllTabs, with a storage write that may be refused and tabs that may
\* close while it is in flight; marks and unlocks happen in between
LockAllStarts(i) ==
    \/ \E t \in Tabs : StartMark(i, t)
    \/ \E t \in Tabs : StartUnlock(i, t)
    \/ StartLockAll(i)
    \/ \E t \in Tabs : StartLockAllFailing(i, t)

LockAllSteps(i) ==
    \/ MarkGotTab(i)
    \/ MarkGotSettings(i)
    \/ LockSaved(i)
    \/ LockSent(i)
    \/ ToggleSaved(i)
    \/ UnlockSaved(i)
    \/ TimerGotSettings(i)
    \/ PreventGotSettings(i)
    \/ PreventGotTab(i)
    \/ \E t \in Tabs : LockAllSaved(i, t)
    \/ \E t \in Tabs : LockAllSent(i, t)
    \/ \E t \in Tabs : LockAllSaveFailed(i, t)
    \/ RemovedSaved(i)
    \/ Retire(i)

NextLockAll ==
    \/ Quiet /\ LockAllStarts(1)
    \/ \E i \in Slots, t \in Tabs :
          (\E j \in Slots : tasks[j].op = "lockAll") /\ EvRemoved(i, t)
    \/ \E i \in Slots : LockAllSteps(i)
    \/ Tick(MsPerMinute, LastMinute)

SpecLockAll == InitPolicy /\ [][NextLockAll]_vars

\* Private Mode switched on and off, by togglePrivateMode and by the settings
\* page, between marks and unlocks under each policy
ModeStarts(i) ==
    \/ \E t \in Tabs : StartMark(i, t)
    \/ \E t \in Tabs : StartUnlock(i, t)
    \/ \E enabled \in BOOLEAN : StartPrivateMode(i, enabled)
    \/ \E mode \in IncognitoModes : StartSetIncognitoMode(i, mode)
    \/ \E patch \in Patches : MsgUpdateSettings(i, Popup, patch)

ModeSteps(i) ==
    \/ MarkGotTab(i)
    \/ MarkGotSettings(i)
    \/ LockSaved(i)
    \/ LockSent(i)
    \/ ToggleSaved(i)
    \/ UnlockSaved(i)
    \/ TimerGotSettings(i)
    \/ PreventGotSettings(i)
    \/ PreventGotTab(i)
    \/ SettingsRead(i)
    \/ SettingsSaved(i)
    \/ PrivateModeRead(i)
    \/ PrivateModeSaved(i)
    \/ IncognitoModeRead(i)
    \/ IncognitoModeSaved(i)
    \/ IncognitoModeGotTab(i)
    \/ UnmarkSent(i)
    \/ \E t \in Tabs : LockAllSaved(i, t)
    \/ \E t \in Tabs : LockAllSent(i, t)
    \/ Retire(i)

NextMode ==
    \/ Quiet /\ ModeStarts(1)
    \/ \E i \in Slots : ModeSteps(i)

SpecMode == InitPolicy /\ [][NextMode]_vars

\* Requests of every type from every kind of sender, one after another, on
\* an installation with or without a master password; the first tab may have
\* been closed, a storage read may be refused, and SET_MASTER_PASSWORD
\* requests may overlap.
InitMessages ==
    /\ \E open \in {Tabs, Tabs \ {1}} : InitCommon(open)
    /\ Loaded
    /\ storedSettings = [BaseSettings EXCEPT !.autoLockTimeout = 0]
    /\ storedHash \in {NoHash, StoredCredential}

MessageTypes == QueryTypes \cup {"UNKNOWN_TYPE"}

\* Who sends them: the popup, another extension, the first tab's content
\* script and a frame nested in the first tab's page
Requesters == {Popup, Foreign, ContentScript(1), SubFrame(1)}

MessageStarts(i) ==
    \/ \E sender \in Requesters, pw \in Passwords : MsgVerifyPassword(i, sender, pw)
    \/ \E sender \in Requesters, pw \in Passwords : MsgVerifyMasterPassword(i, sender, pw)
    \/ \E sender \in Requesters, pw \in Passwords, new \in Passwords :
          MsgChangeMasterPassword(i, sender, pw, new)
    \/ \E sender \in Requesters, t \in Tabs, isPrivate \in BOOLEAN :
          MsgMarkTabPrivate(i, sender, t, isPrivate)
    \/ \E sender \in Requesters : MsgLockAllTabs(i, sender)
    \/ \E sender \in Requesters, m \in IncognitoModes :
          MsgUpdateSettings(i, sender, <<"incognitoMode", m>>)
    \/ \E sender \in Requesters, type \in MessageTypes : MsgOther(i, sender, type)

MessageSteps(i) ==
    \/ VerifyGotHash(i)
    \/ VerifyChecked(i)
    \/ UnlockSaved(i)
    \/ TimerGotSettings(i)
    \/ \E salt \in Salts : MasterGotHash(i, salt)
    \/ \E salt \in Salts : MasterChecked(i, salt)
    \/ \E salt \in Salts : SetPasswordChecked(i, salt)
    \/ SetPasswordHashed(i)
    \/ SetPasswordSaved(i)
    \/ MarkGotTab(i)
    \/ MarkGotSettings(i)
    \/ LockSaved(i)
    \/ LockSent(i)
    \/ ToggleSaved(i)
    \/ UnmarkSent(i)
    \/ \E t \in Tabs : LockAllSaved(i, t)
    \/ \E t \in Tabs : LockAllSent(i, t)
    \/ SettingsRead(i)
    \/ SettingsSaved(i)
    \/ GotSettings(i)
    \/ StorageReadFailed(i)
    \/ Retire(i)

OnlySettingPassword == \A j \in Slots : tasks[j].op \in {"idle", "setPassword"}

NextMessages ==
    \/ Quiet /\ MessageStarts(1)
    \/ \E i \in Slots, sender \in Requesters, pw \in Passwords :
          OnlySettingPassword /\ MsgSetMasterPassword(i, sender, pw)
    \/ \E i \in Slots : MessageSteps(i)

SpecMessages == InitMessages /\ [][NextMessages]_vars

\* The settings page switches notifications, lock-on-switch and the timeout
\* between unlocks, activations and timeouts of the first tab
FreshPatches ==
    {<<"showNotifications", b>> : b \in BOOLEAN}
    \cup {<<"lockOnTabSwitch", b>> : b \in BOOLEAN}
    \cup {<<"autoLockTimeout", n>> : n \in {0, 1}}

FreshStarts(i) ==
    \/ \E t \in 1..BusyTabs : StartMark(i, t)
    \/ \E t \in 1..BusyTabs : StartUnlock(i, t)
    \/ \E t \in 1..BusyTabs : EvActivated(i, t)
    \/ \E x \in pendingTimers : FireTimer(i, x)
    \/ \E patch \in FreshPatches : MsgUpdateSettings(i, Popup, patch)

FreshSteps(i) ==
    \/ MarkGotTab(i)
    \/ MarkGotSettings(i)
    \/ LockSaved(i)
    \/ LockSent(i)
    \/ ToggleSaved(i)
    \/ UnlockSaved(i)
    \/ TimerGotSettings(i)
    \/ PreventGotSettings(i)
    \/ PreventGotTab(i)
    \/ ActivatedGotSettings(i)
    \/ TimerNotified(i)
    \/ SettingsRead(i)
    \/ SettingsSaved(i)
    \/ Retire(i)

NextFresh ==
    \/ Quiet /\ FreshStarts(1)
    \/ \E i \in Slots : FreshSteps(i)
    \/ Tick(MsPerMinute, LastMinute)

SpecFresh == InitPolicy /\ [][NextFresh]_vars

\* The service worker starts after the browser was restarted or a private
\* tab was closed while it was down: the store holds the record of a tab that
\* may no longer exist.  Operations follow one another; initialize's read,
\* every other pending call and every due timeout eventually come back.
InitSweep ==
    /\ \E open \in {Tabs, Tabs \ {1}} : InitCommon(open)
    /\ storedSettings = BaseSettings
    /\ storedHash = StoredCredential
    /\ storedTabs = [t \in Tabs |-> IF t = 1 THEN unlockedEarlier ELSE NoTab]
    /\ bootTabs = storedTabs
    /\ loaded = FALSE
    /\ privateTabs = [t \in Tabs |-> NoTab]
    /\ tabOrder = <<>>

NextSweep ==
    \/ NextSeq
    \/ Load

SpecSweep == InitSweep /\ [][NextSweep]_vars /\ Fairness /\ WF_vars(Load)

\* Every message type, tab event and timeout, one after another, in an
\* initialized engine with a credential and a one-minute timeout.  The
\* first tab's content script sends the messages a page can send.
GuessedPasswords == {"Sn0wman!", "wrong"}

GateStarts(i) ==
    \/ \E pw \in GuessedPasswords : MsgVerifyPassword(i, ContentScript(1), pw)
    \/ \E pw \in GuessedPasswords : MsgVerifyMasterPassword(i, ContentScript(1), pw)
    \/ \E pw \in GuessedPasswords : MsgChangeMasterPassword(i, ContentScript(1), pw, "Sn0wman!")
    \/ MsgSetMasterPassword(i, ContentScript(1), "Sn0wman!")
    \/ \E t \in Tabs, isPrivate \in BOOLEAN : MsgMarkTabPrivate(i, Popup, t, isPrivate)
    \/ MsgLockAllTabs(i, Popup)
    \/ MsgUpdateSettings(i, Popup, <<"incognitoMode", "always-lock">>)
    \/ \E type \in MessageTypes : MsgOther(i, ContentScript(1), type)
    \/ \E t \in Tabs : EvActivated(i, t)
    \/ \E page \in Pages : EvUpdated(i, 1, page)
    \/ EvRemoved(i, 2)
    \/ \E x \in pendingTimers : FireTimer(i, x)

GateSteps(i) ==
    \/ MessageSteps(i)
    \/ PreventGotSettings(i)
    \/ PreventGotTab(i)
    \/ ActivatedGotSettings(i)
    \/ RemovedSaved(i)
    \/ UpdatedSaved(i)
    \/ TimerNotified(i)

NextGate ==
    \/ Quiet /\ GateStarts(1)
    \/ \E i \in Slots : GateSteps(i)
    \/ Tick(MsPerMinute, LastMinute)

SpecGate == InitPolicy /\ [][NextGate]_vars

\* The first tab's content script sends passwords without waiting for the
\* answers: VERIFY_PASSWORD requests for the same tab overlap
NextRace ==
    \/ \E i \in Slots, pw \in GuessedPasswords : MsgVerifyPassword(i, ContentScript(1), pw)
    \/ Quiet /\ EvActivated(1, 1)
    \/ \E i \in Slots : VerifySteps(i)

SpecRace == InitRouter /\ [][NextRace]_vars

\* Tabs are marked, unmarked and closed in an initialized engine, and a tab
\* can be closed while an operation on it is suspended
CloseStarts(i) ==
    \/ \E t \in Tabs : StartMark(i, t)
    \/ \E t \in Tabs : StartUnmark(i, t)
    \/ \E t \in Tabs : EvRemoved(i, t)

CloseSteps(i) ==
    \/ MarkGotTab(i)
    \/ MarkGotSettings(i)
    \/ LockSaved(i)
    \/ LockSent(i)
    \/ ToggleSaved(i)
    \/ UnmarkSent(i)
    \/ RemovedSaved(i)
    \/ Retire(i)

NextClose ==
    \/ \E i \in Slots : CloseStarts(i)
    \/ \E i \in Slots : CloseSteps(i)

SpecClose == InitPolicy /\ [][NextClose]_vars

\* Settings are changed from several places at once: whitelist patterns are
\* added and removed, Private Mode is toggled and the settings page sends
\* UPDATE_SETTINGS, without one call waiting for another
TuneStarts(i) ==
    \/ \E pattern \in {PatStar, PatDot} : StartAddWhitelistedUrl(i, pattern)
    \/ StartRemoveWhitelistedUrl(i, PatStar)
    \/ StartPrivateMode(i, TRUE)
    \/ MsgUpdateSettings(i, Popup, <<"autoLockTimeout", 0>>)

TuneSteps(i) ==
    \/ WhitelistGotSettings(i)
    \/ WhitelistRead(i)
    \/ WhitelistSaved(i)
    \/ PrivateModeRead(i)
    \/ PrivateModeSaved(i)
    \/ SettingsRead(i)
    \/ SettingsSaved(i)
    \/ Retire(i)

NextTune ==
    \/ \E i \in Slots : TuneStarts(i)
    \/ \E i \in Slots : TuneSteps(i)

SpecTune == InitPolicy /\ [][NextTune]_vars


\* ---------------------------------------------------------------- claims
Returned(i, op) == tasks[i].pc = "done" /\ tasks[i].op = op
TimersFor(t) == {x \in pendingTimers : x.tab = t}

\* C1: in every reachable state, whatever the interleaving of the engine's
\* operations, tab events and timer firings, every record of the registry is
\* locked exactly when it has no lastUnlocked timestamp.
C1_LockedIffNoLastUnlocked ==
    \A t \in Tabs :
        privateTabs[t].present =>
            (privateTabs[t].isLocked <=> privateTabs[t].lastUnlocked = Absent)

\* A timer callback that overlapped another invocation has locked a record
\* that had been unlocked.
C1_Witness ==
    \E i \in Slots :
        /\ Returned(i, "timer")
        /\ ~tasks[i].solo
        /\ <<"LOCK_TAB", tasks[i].tab>> \in tasks[i].cmds
        /\ privateTabs[tasks[i].tab].present
        /\ privateTabs[tasks[i].tab].isLocked

\* C2: at most one session timer is pending for a tab, even when several
\* unlock or restartSessionTimers calls for it overlap at their awaits.
C2_OneTimerPerTab ==
    \A t \in Tabs : Cardinality(TimersFor(t)) <= 1

\* The lockout test of handleVerifyPassword, on the counter as it is when
\* the message arrives
LockedOut(attempts, at) ==
    attempts.count >= MaxAttempts /\ at - attempts.lastAttempt < LockoutMs

CounterOf(t) ==
    IF passwordAttempts[t] = 0 THEN NoAttempts ELSE attemptObjs[passwordAttempts[t]]

\* C3: a VERIFY_PASSWORD for a tab whose counter is at 5 or more with a last
\* attempt less than 5 minutes old is answered at once with success false and
\* attempts equal to the count; the verifier is not consulted, nothing is
\* unlocked and the counter stays as it was.
C3_LockedOutIsRefused ==
    [][\A i \in Slots, t \in Tabs :
          (/\ tasks[i].op = "idle"
           /\ tasks'[i].op = "verify"
           /\ isValidMessageSource(tasks'[i].from)
           /\ tasks'[i].tab = t
           /\ LockedOut(CounterOf(t), now))
          => /\ tasks'[i].pc = "done"
             /\ tasks'[i].res = Reply(FALSE, CounterOf(t).count, "")
             /\ ~tasks'[i].consulted
             /\ privateTabs' = privateTabs
             /\ storedTabs' = storedTabs
             /\ passwordAttempts' = passwordAttempts
             /\ CounterOf(t)' = CounterOf(t)]_vars

\* The sixth attempt within the lockout has been answered with attempts 5.
C3_Witness ==
    \E i \in Slots :
        /\ Returned(i, "verify")
        /\ ~tasks[i].consulted
        /\ tasks[i].res = Reply(FALSE, MaxAttempts, "")
        /\ CounterOf(tasks[i].tab).count = MaxAttempts
        /\ now - CounterOf(tasks[i].tab).lastAttempt = LockoutMs \div 2

C5_FailuresAreCounted ==
    [][\A i \in Slots, t \in Tabs, k \in 1..MaxAttempts :
          (/\ tasks[i].pc = "v_crypto"
           /\ tasks'[i].pc = "done"
           /\ tasks'[i].solo
           /\ tasks[i].tab = t
           /\ tasks[i].pw # "Sn0wman!"
           /\ CounterOf(t).count = k - 1)
          => /\ tasks'[i].res = Reply(FALSE, k, "")
             /\ CounterOf(t)' = [count |-> k, lastAttempt |-> tasks[i].t0]
             /\ \A u \in Tabs \ {t} : CounterOf(u)' = CounterOf(u)]_vars

\* The fifth failure in a row has been answered with attempts 5 while another
\* tab has a counter of its own.
C5_Witness ==
    \E i \in Slots :
        /\ Returned(i, "verify")
        /\ tasks[i].solo
        /\ tasks[i].consulted
        /\ tasks[i].res = Reply(FALSE, MaxAttempts, "")
        /\ tasks[i].seen.count = MaxAttempts - 1
        /\ \E u \in Tabs \ {tasks[i].tab} : CounterOf(u).count \in 1..2

\* Auto-lock is suppressed for a tab: Private Mode is on, or the record's URL
\* matches a whitelist pattern, or the tab is incognito and the incognito
\* policy is always-lock or disabled.
Suppressed(t) ==
    \/ storedSettings.privateMode
    \/ isUrlWhitelisted(privateTabs[t].url, storedSettings.whitelistedUrls)
    \/ IsIncognitoTab(t) /\ storedSettings.incognitoMode \in {"always-lock", "disabled"}

Unlocked(t) == privateTabs[t].present /\ ~privateTabs[t].isLocked

C8_MarkedTabIsLocked ==
    \A i \in Slots :
        (Returned(i, "mark") /\ tasks[i].solo /\ tasks[i].res.kind = "ok")
        => LET t == tasks[i].tab
           IN  /\ privateTabs[t].present
               /\ privateTabs[t].isLocked
               /\ privateTabs[t].lastUnlocked = Absent
               /\ sessionTimers[t] = 0
               /\ TimersFor(t) = {}
               /\ <<"LOCK_TAB", t>> \in tasks[i].cmds
               /\ storedTabs[t] = privateTabs[t]

\* A tab has been marked private while the other tab is unlocked with its
\* timer pending.
C8_Witness ==
    \E i \in Slots :
        /\ Returned(i, "mark")
        /\ tasks[i].solo
        /\ tasks[i].res.kind = "ok"
        /\ privateTabs[tasks[i].tab].isLocked
        /\ \E u \in Tabs \ {tasks[i].tab} : Unlocked(u) /\ TimersFor(u) # {}

\* C9: in no reachable state does the registry hold a record while no master
\* password is stored, whether the tab was marked by a MARK_TAB_PRIVATE
\* message or by the toggle-private keyboard command.
C9_NoRecordWithoutCredential ==
    (\E t \in Tabs : privateTabs[t].present) => storedHash.present

\* What toggleTabPrivate can change
EngineState == <<privateTabs, tabOrder, sessionTimers, pendingTimers, storedTabs,
                 storedSettings>>

Minutes == {k * MsPerMinute : k \in 1..(1 + MaxMinutes)}

\* unlockTab, called at time v, has returned for a tab of the registry, under
\* a timeout, with auto-lock not suppressed
UnlockSettled(t, v) ==
    /\ \E i \in Slots : Returned(i, "unlock") /\ tasks[i].tab = t
    /\ Unlocked(t)
    /\ privateTabs[t].lastUnlocked = v
    /\ storedSettings.autoLockTimeout > 0
    /\ ~Suppressed(t)

\* The tab is locked, or has left the registry, or has been unlocked anew;
\* or its timeout ends later than the last time that is followed.
LockedOrGone(t, v) ==
    \/ ~privateTabs[t].present
    \/ privateTabs[t].isLocked
    \/ privateTabs[t].lastUnlocked # v
    \/ \E x \in TimersFor(t) : x.due > LastMinute

Alone(i, op) == Returned(i, op) /\ tasks[i].solo /\ tasks[i].pre.taken

\* Nothing of the registry, the timers or the stored collection differs from
\* what the invocation found, and it sent no command to a content script
NothingChanged(i) ==
    /\ privateTabs = tasks[i].pre.reg
    /\ sessionTimers = tasks[i].pre.timers
    /\ pendingTimers = tasks[i].pre.pending
    /\ storedTabs = tasks[i].pre.stored
    /\ tasks[i].cmds = {}

\* C11: handleTabActivated on an unlocked private tab locks it when
\* lockOnTabSwitch is true and leaves it unlocked when it is false; on a
\* tab that is locked or not private it changes nothing: no record, timer or
\* stored collection changes and no command is sent.
C11_ActivationLocksOnSwitch ==
    \A i \in Slots :
        Alone(i, "activated")
        => LET t == tasks[i].tab
               was == tasks[i].pre.reg[t]
           IN  IF was.present /\ ~was.isLocked
               THEN IF tasks[i].pre.settings.lockOnTabSwitch
                    THEN /\ privateTabs[t].present
                         /\ privateTabs[t].isLocked
                         /\ <<"LOCK_TAB", t>> \in tasks[i].cmds
                    ELSE Unlocked(t) /\ NothingChanged(i)
               ELSE NothingChanged(i)

\* The activation of an unlocked tab whose session timer was pending has
\* locked it.
C11_Witness ==
    \E i \in Slots :
        /\ Alone(i, "activated")
        /\ ~tasks[i].pre.reg[tasks[i].tab].isLocked
        /\ tasks[i].pre.timers[tasks[i].tab] # 0
        /\ tasks[i].pre.settings.lockOnTabSwitch
        /\ privateTabs[tasks[i].tab].isLocked
        /\ TimersFor(tasks[i].tab) = {}


\* C12: with lockOnTabSwitch true, a handleTabActivated(tabId) that is called
\* right after unlockTab(tabId), at the same time and before the unlock has
\* returned, does not lock the tab again.
C12_ActivationAfterUnlockKeepsUnlocked ==
    \A i \in Slots :
        (Returned(i, "activated") /\ tasks[i].amid)
        => <<"LOCK_TAB", tasks[i].tab>> \notin tasks[i].cmds


\* C13: lockTab(tabId) leaves the record, if there is one, locked and without
\* a session timer; and a lockTab(tabId) called in such a state, as it is
\* after a first call has settled, leaves the registry, the pending timers
\* and the stored collection exactly as it found them.
C13_LockIsIdempotent ==
    \A i \in Slots :
        Alone(i, "lock")
        => LET t == tasks[i].tab
               was == tasks[i].pre.reg[t]
           IN  /\ privateTabs[t].present
                    => /\ privateTabs[t].isLocked
                       /\ sessionTimers[t] = 0
                       /\ TimersFor(t) = {}
               /\ (~was.present \/ (was.isLocked /\ tasks[i].pre.timers[t] = 0))
                    => /\ privateTabs = tasks[i].pre.reg
                       /\ sessionTimers = tasks[i].pre.timers
                       /\ pendingTimers = tasks[i].pre.pending
                       /\ storedTabs = tasks[i].pre.stored

\* lockTab has returned for a tab that was locked already, while another tab
\* is unlocked with its timer pending.
C13_Witness ==
    \E i \in Slots :
        /\ Alone(i, "lock")
        /\ tasks[i].pre.reg[tasks[i].tab].present
        /\ tasks[i].pre.reg[tasks[i].tab].isLocked
        /\ <<"LOCK_TAB", tasks[i].tab>> \in tasks[i].cmds
        /\ \E u \in Tabs \ {tasks[i].tab} : Unlocked(u) /\ TimersFor(u) # {}


\* The operations that lock: lockTab, lockAllTabs, handleTabActivated and the
\* session timer's callback
LockingOps == {"lock", "lockAll", "activated", "timer"}

\* C14: while settings.lockingEnabled is false, lockTab, lockAllTabs, a tab
\* activation and a session timer's callback lock nothing: when one of them
\* returns, the records and the stored collection are as it found them.
C14_LockingDisabledLocksNothing ==
    \A i \in Slots :
        (/\ \E op \in LockingOps : Alone(i, op)
         /\ ~tasks[i].pre.settings.lockingEnabled)
        => /\ privateTabs = tasks[i].pre.reg
           /\ storedTabs = tasks[i].pre.stored


\* C15: once lockAllTabs has been called, and still when it has returned,
\* every record of the registry is locked and has no session timer, also
\* when the storage write of one of its lockTab calls is refused or a tab
\* closes while it is in flight.
C15_LockAllLocksEveryTab ==
    \A i \in Slots :
        (tasks[i].op = "lockAll" /\ tasks[i].pc \in {"la_wait", "done"})
        => \A t \in Tabs :
              privateTabs[t].present
              => /\ privateTabs[t].isLocked
                 /\ sessionTimers[t] = 0
                 /\ TimersFor(t) = {}

\* lockAllTabs has thrown because a storage write was refused, and the other
\* tab, which was unlocked with its timer pending, is locked.
C15_Witness ==
    \E i \in Slots, u \in Tabs :
        /\ Returned(i, "lockAll")
        /\ tasks[i].res.kind = "error"
        /\ tasks[i].pre.taken
        /\ ~tasks[i].pre.reg[u].isLocked
        /\ tasks[i].pre.timers[u] # 0
        /\ privateTabs[u].isLocked
        /\ <<"LOCK_TAB", u>> \in tasks[i].cmds


\* The records and timers of every tab but t are as the invocation found them
OthersUnchanged(i, t) ==
    \A u \in Tabs \ {t} :
        /\ privateTabs[u] = tasks[i].pre.reg[u]
        /\ storedTabs[u] = tasks[i].pre.stored[u]
        /\ sessionTimers[u] = tasks[i].pre.timers[u]
        /\ TimersFor(u) = {x \in tasks[i].pre.pending : x.tab = u}

\* C16: after toggleTabPrivate(tabId, false) has returned, the tab has no
\* record (its status is normal), no session timer is pending for it, the
\* UNLOCK_TAB command was sent to it and the stored collection does not hold
\* it; the records and timers of the other tabs are unchanged.
C16_UnmarkedTabIsForgotten ==
    \A i \in Slots :
        Alone(i, "unmark")
        => LET t == tasks[i].tab
           IN  /\ ~privateTabs[t].present
               /\ getTabStatus(privateTabs, t) = "normal"
               /\ sessionTimers[t] = 0
               /\ TimersFor(t) = {}
               /\ <<"UNLOCK_TAB", t>> \in tasks[i].cmds
               /\ ~storedTabs[t].present
               /\ OthersUnchanged(i, t)

\* An unlocked tab whose timer was pending has been unmarked while the other
\* tab is unlocked with a timer of its own.
C16_Witness ==
    \E i \in Slots :
        /\ Alone(i, "unmark")
        /\ tasks[i].pre.reg[tasks[i].tab].present
        /\ tasks[i].pre.timers[tasks[i].tab] # 0
        /\ ~privateTabs[tasks[i].tab].present
        /\ \E u \in Tabs \ {tasks[i].tab} : Unlocked(u) /\ TimersFor(u) # {}


\* C17: after handleTabRemoved(tabId) has returned, neither the registry nor
\* the stored collection holds a record of the tab and no session timer is
\* pending for it; the records and timers of the other tabs are unchanged;
\* and if the tab had no record nothing has changed at all.
C17_RemovedTabIsForgotten ==
    \A i \in Slots :
        Alone(i, "removed")
        => LET t == tasks[i].tab
           IN  /\ ~privateTabs[t].present
               /\ ~storedTabs[t].present
               /\ sessionTimers[t] = 0
               /\ TimersFor(t) = {}
               /\ OthersUnchanged(i, t)
               /\ ~tasks[i].pre.reg[t].present => NothingChanged(i)

\* An unlocked private tab whose timer was pending has been closed while the
\* other tab is unlocked with a timer of its own.
C17_Witness ==
    \E i \in Slots :
        /\ Alone(i, "removed")
        /\ tasks[i].pre.reg[tasks[i].tab].present
        /\ tasks[i].pre.timers[tasks[i].tab] # 0
        /\ ~browserTabs[tasks[i].tab].open
        /\ ~storedTabs[tasks[i].tab].present
        /\ \E u \in Tabs \ {tasks[i].tab} : Unlocked(u) /\ TimersFor(u) # {}


\* C18: handleTabUpdated on a tab with a record sets the record's url and
\* title to the page's (an empty one keeps the old value), stores them, and
\* leaves isLocked and lastUnlocked alone: for a locked record LOCK_TAB is
\* sent again, for an unlocked one nothing is sent and its timer stays; the
\* other tabs are unchanged, and a tab without a record changes nothing.
C18_NavigationKeepsLockState ==
    \A i \in Slots :
        Alone(i, "updated")
        => LET t == tasks[i].tab
               was == tasks[i].pre.reg[t]
               page == browserTabs[t].page
           IN  IF was.present
               THEN /\ privateTabs[t] =
                         [was EXCEPT !.url = IF page.url = <<>> THEN @ ELSE page.url,
                                     !.title = IF page.title = "" THEN @ ELSE page.title]
                    /\ storedTabs[t] = privateTabs[t]
                    /\ was.isLocked => <<"LOCK_TAB", t>> \in tasks[i].cmds
                    /\ ~was.isLocked => /\ tasks[i].cmds = {}
                                        /\ sessionTimers = tasks[i].pre.timers
                                        /\ pendingTimers = tasks[i].pre.pending
                    /\ OthersUnchanged(i, t)
               ELSE NothingChanged(i)

\* A locked tab has navigated to another page: the record has the new url,
\* is still locked, and LOCK_TAB was sent again.
C18_Witness ==
    \E i \in Slots :
        /\ Alone(i, "updated")
        /\ tasks[i].pre.reg[tasks[i].tab].present
        /\ tasks[i].pre.reg[tasks[i].tab].isLocked
        /\ privateTabs[tasks[i].tab].url # tasks[i].pre.reg[tasks[i].tab].url
        /\ privateTabs[tasks[i].tab].isLocked
        /\ <<"LOCK_TAB", tasks[i].tab>> \in tasks[i].cmds


C20_PrivateModeHasNoTimers ==
    (Quiet /\ storedSettings.privateMode) => pendingTimers = {}


\* An invocation that sets incognitoMode to 'disabled' has returned, with
\* nothing else in between: setIncognitoMode, or the settings page's
\* UPDATE_SETTINGS
SetIncognitoDisabled(i) ==
    /\ tasks[i].pc = "done"
    /\ tasks[i].op \in {"incognitoMode", "updateSettings"}
    /\ tasks[i].solo
    /\ tasks[i].pre.taken
    /\ tasks[i].patch = <<"incognitoMode", "disabled">>

\* C21: once incognitoMode has been set to disabled and the change has
\* settled, no record of an incognito tab is left in the registry or the
\* stored collection, no timer is pending for such a tab and UNLOCK_TAB was
\* sent to each one that had a record; the records and timers of the other
\* tabs are as they were.
C21_DisabledUnmarksIncognito ==
    \A i \in Slots :
        SetIncognitoDisabled(i)
        => /\ storedSettings.incognitoMode = "disabled"
           /\ \A t \in Tabs :
                 IF IsIncognitoTab(t)
                 THEN /\ ~privateTabs[t].present
                      /\ ~storedTabs[t].present
                      /\ sessionTimers[t] = 0
                      /\ TimersFor(t) = {}
                      /\ tasks[i].pre.reg[t].present
                            => <<"UNLOCK_TAB", t>> \in tasks[i].cmds
                 ELSE /\ privateTabs[t] = tasks[i].pre.reg[t]
                      /\ storedTabs[t] = tasks[i].pre.stored[t]
                      /\ sessionTimers[t] = tasks[i].pre.timers[t]
                      /\ TimersFor(t) = {x \in tasks[i].pre.pending : x.tab = t}


\* A sender that is another extension, or a frame nested in a tab's page
NotOurTopFrame(sender) ==
    \/ sender.id # "self"
    \/ /\ sender.url # "chrome-extension://self"
       /\ sender.tab # 0
       /\ sender.frameId \notin {0, Absent}

\* C22: a message from another extension, or from a frame that is neither an
\* extension page nor the top frame of a tab, is answered at once with the
\* invalid-source error whatever its type, and handling it changes no record,
\* timer, attempt counter, credential or setting, sends no command and does
\* not consult the verifier.
C22_InvalidSourceHasNoEffect ==
    [][\A i \in Slots :
          (/\ tasks[i].op = "idle"
           /\ tasks'[i].via = "message"
           /\ NotOurTopFrame(tasks'[i].from))
          => /\ tasks'[i].pc = "done"
             /\ tasks'[i].res = ErrorResult("Invalid message source")
             /\ ~tasks'[i].consulted
             /\ tasks'[i].cmds = {}
             /\ ~tasks'[i].notified
             /\ UNCHANGED <<privateTabs, tabOrder, sessionTimers, pendingTimers,
                            storedTabs, storedSettings, storedHash,
                            passwordAttempts, attemptObjs>>]_vars

\* A frame nested in the first tab's page has sent a VERIFY_PASSWORD for its
\* locked tab, and has been refused.
C22_Witness ==
    \E i \in Slots :
        /\ Returned(i, "verify")
        /\ tasks[i].from = SubFrame(1)
        /\ storedHash = StoredCredential
        /\ privateTabs[1].present
        /\ privateTabs[1].isLocked
        /\ tasks[i].res = ErrorResult("Invalid message source")


\* C23: handleMessage always resolves with a result value and never rejects:
\* for every message type from a valid sender the caller gets a response
\* object; an unknown type is answered with the unknown-message-type error, a
\* failed tab lookup and a refused storage read with an error result that
\* carries the exception's message.
C23_NoExceptionEscapes ==
    \A i \in Slots :
        (tasks[i].pc = "done" /\ tasks[i].via = "message"
         /\ isValidMessageSource(tasks[i].from))
        => /\ tasks[i].res.kind \in {"response", "errorResult", "settings", "tabs", "status"}
           /\ tasks[i].res.kind = "errorResult" => tasks[i].res.error # ""
           /\ (tasks[i].op = "other" /\ tasks[i].type \notin QueryTypes)
                 => tasks[i].res = ErrorResult("Unknown message type")
           /\ (tasks[i].op = "mark" /\ ~tasks[i].tabv.ok)
                 => tasks[i].res = ErrorResult("No tab with id")

\* GET_SETTINGS from the popup has been answered with an error result after
\* the storage read was refused.
C23_Witness ==
    \E i \in Slots :
        /\ Returned(i, "other")
        /\ tasks[i].from = Popup
        /\ tasks[i].type = "GET_SETTINGS"
        /\ tasks[i].res = ErrorResult("Storage error")


\* { success: false, error: message }
ValidationFailure(msg) == Reply(FALSE, Absent, msg)

\* C24: a validation failure is answered with { success: false, error }:
\* SET_MASTER_PASSWORD while a credential exists, SET_MASTER_PASSWORD with a
\* password that fails validation, and MARK_TAB_PRIVATE for an incognito tab
\* while incognitoMode is disabled; none of them is thrown to the requester.
C24_ValidationFailuresAreStructured ==
    \A i \in Slots :
        (/\ tasks[i].pc = "done"
         /\ tasks[i].via = "message"
         /\ isValidMessageSource(tasks[i].from)
         /\ tasks[i].res.error # "Storage error")
        => /\ tasks[i].res.kind # "error"
           /\ (tasks[i].op = "setPassword" /\ ~tasks[i].res.success)
                 => IF tasks[i].hashv.present
                    THEN tasks[i].res = ValidationFailure("Master password already set")
                    ELSE /\ ~validatePassword(PasswordText(tasks[i].pw)).valid
                         /\ tasks[i].res =
                              ValidationFailure(validatePassword(PasswordText(tasks[i].pw)).error)
           /\ (tasks[i].op = "mark" /\ tasks[i].tabv.ok
               /\ incognitoBlocked(tasks[i].tabv, tasks[i].s1))
                 => tasks[i].res = ValidationFailure(
                       "Cannot mark incognito tabs as private when incognito mode is disabled")


\* C25: the stored credential changes only when a SET_MASTER_PASSWORD with a
\* valid password writes it while no credential exists, or when a
\* CHANGE_MASTER_PASSWORD whose current password verifies against the stored
\* credential writes a valid new password; so a request that finds a
\* credential, or brings a wrong current password, leaves it as it is, and of
\* several overlapping SET_MASTER_PASSWORD requests only one writes.
C25_CredentialChangesOnlyWhenAllowed ==
    [][storedHash' # storedHash
          => \E i \in Slots :
                /\ tasks[i].pc = "p_hash"
                /\ tasks'[i].pc = "p_save"
                /\ storedHash' = tasks[i].hashv
                /\ IF tasks[i].op = "setPassword"
                   THEN /\ ~storedHash.present
                        /\ validatePassword(PasswordText(tasks[i].pw)).valid
                        /\ storedHash'.hash = hashPassword(tasks[i].pw, storedHash'.salt).hash
                   ELSE /\ tasks[i].op = "changePassword"
                        /\ verifyPassword(tasks[i].pw, storedHash)
                        /\ validatePassword(PasswordText(tasks[i].newPassword)).valid
                        /\ storedHash'.hash =
                              hashPassword(tasks[i].newPassword, storedHash'.salt).hash]_vars


\* C26: a VERIFY_PASSWORD that arrives 5 minutes or more after the last
\* attempt of a counter that stands at 5 or more is not refused: the verifier
\* is consulted, and when the password is wrong the attempt is counted from a
\* fresh counter: the answer carries attempts 1 and the tab's counter is at 1.
C26_CounterExpiresAfterLockout ==
    \A i \in Slots :
        (/\ Returned(i, "verify")
         /\ tasks[i].solo
         /\ isValidMessageSource(tasks[i].from)
         /\ tasks[i].tab \in Tabs
         /\ tasks[i].hashv.present
         /\ tasks[i].seen.count >= MaxAttempts
         /\ tasks[i].t0 - tasks[i].seen.lastAttempt >= LockoutMs)
        => /\ tasks[i].consulted
           /\ ~tasks[i].res.success
                 => /\ tasks[i].res = Reply(FALSE, 1, "")
                    /\ CounterOf(tasks[i].tab) = [count |-> 1, lastAttempt |-> tasks[i].t0]


\* The requests that carry a password to be verified
GuessingOps == {"verify", "verifyMaster", "changePassword"}

\* C27: a request that carries a password to be verified and comes from a
\* sender whose tab is locked out when it arrives (counter at 5 or more, last
\* attempt less than 5 minutes old) is answered without the verifier being
\* consulted, whatever its type: VERIFY_PASSWORD, VERIFY_MASTER_PASSWORD or
\* CHANGE_MASTER_PASSWORD.
C27_VerifierIsRateLimited ==
    \A i \in Slots :
        (/\ tasks[i].pc = "done"
         /\ tasks[i].op \in GuessingOps
         /\ isValidMessageSource(tasks[i].from)
         /\ LockedOut(tasks[i].seen, tasks[i].t0))
        => ~tasks[i].consulted


\* C28: whenever the engine has been initialized and no operation is in
\* flight, the stored collection equals the registry: mark, unmark, lock,
\* unlock, handleTabRemoved, handleTabUpdated and the timer callback have each
\* written the whole collection, with their mutation in it, before returning.
C28_StoreMirrorsRegistry ==
    (loaded /\ Quiet) => storedTabs = privateTabs


\* C29: a session timeout that fires for a tab whose record is locked or is
\* no longer in the registry does nothing: the callback returns at once
\* without an error, the registry and the stored collection stay as they are,
\* no command is sent to the tab and no notification is created.
C29_StaleTimerIsNoOp ==
    [][\A i \in Slots, t \in Tabs :
          (/\ tasks[i].op = "idle"
           /\ tasks'[i].op = "timer"
           /\ tasks'[i].tab = t
           /\ ~Unlocked(t))
          => /\ tasks'[i].pc = "done"
             /\ tasks'[i].res = Ok
             /\ tasks'[i].cmds = {}
             /\ ~tasks'[i].notified
             /\ privateTabs' = privateTabs
             /\ tabOrder' = tabOrder
             /\ storedTabs' = storedTabs]_vars

\* A timeout has fired for a tab that had been locked in the meantime, and
\* nothing was sent.
C29_Witness ==
    \E i \in Slots :
        /\ Returned(i, "timer")
        /\ tasks[i].cmds = {}
        /\ ~tasks[i].notified
        /\ privateTabs[tasks[i].tab].present
        /\ privateTabs[tasks[i].tab].isLocked

\* A timeout has fired for a tab whose record is gone.
C29_WitnessRemoved ==
    \E i \in Slots :
        /\ Returned(i, "timer")
        /\ tasks[i].cmds = {}
        /\ ~privateTabs[tasks[i].tab].present


\* C30: an operation during which the delivery of LOCK_TAB, the delivery of
\* UNLOCK_TAB or the creation of the notification failed still returns
\* without an error, with its transition made and stored: after a failed
\* LOCK_TAB or notification the record is locked, without a session timer,
\* and stored as locked; after a failed UNLOCK_TAB the record is gone from the
\* registry and from the stored collection.
C30_CollaboratorFailureKeepsTransition ==
    \A i \in Slots :
        (tasks[i].pc = "done" /\ tasks[i].solo /\ tasks[i].failed # {})
        => LET t == tasks[i].tab
           IN  /\ tasks[i].res = Ok
               /\ IF "UNLOCK_TAB" \in tasks[i].failed
                  THEN /\ ~privateTabs[t].present
                       /\ ~storedTabs[t].present
                       /\ TimersFor(t) = {}
                  ELSE /\ privateTabs[t].present
                       /\ privateTabs[t].isLocked
                       /\ storedTabs[t] = privateTabs[t]
                       /\ TimersFor(t) = {}

\* A timeout has locked an unlocked tab although neither LOCK_TAB nor the
\* notification could be delivered.
C30_Witness ==
    \E i \in Slots :
        /\ Returned(i, "timer")
        /\ tasks[i].solo
        /\ tasks[i].failed = {"LOCK_TAB", "notification"}
        /\ privateTabs[tasks[i].tab].isLocked
        /\ storedTabs[tasks[i].tab].isLocked


\* C31: the engine's decisions use the settings as they are stored when the
\* decision is made: an activation of an unlocked tab locks it exactly when
\* lockOnTabSwitch is true, an unlock leaves a timer pending exactly when
\* autoLockTimeout > 0 and auto-lock is not suppressed, and a timeout that
\* locks a tab creates a notification exactly when showNotifications is true
\* at the time it fires.
C31_DecisionsUseCurrentSettings ==
    \A i \in Slots :
        LET t == tasks[i].tab
        IN  /\ (Alone(i, "activated") /\ tasks[i].pre.reg[t].present
                /\ ~tasks[i].pre.reg[t].isLocked)
                  => (<<"LOCK_TAB", t>> \in tasks[i].cmds
                         <=> tasks[i].pre.settings.lockOnTabSwitch)
            /\ (Returned(i, "unlock") /\ tasks[i].solo /\ privateTabs[t].present)
                  => (TimersFor(t) # {}
                         <=> storedSettings.autoLockTimeout > 0 /\ ~Suppressed(t))
            /\ (Alone(i, "timer") /\ tasks[i].pre.reg[t].present
                /\ ~tasks[i].pre.reg[t].isLocked)
                  => (tasks[i].notified <=> tasks[i].pre.settings.showNotifications)


\* C32: a record whose tab no longer exists is eventually gone from the
\* registry and from the persisted collection.
C32_OrphanRecordsAreSwept ==
    \A t \in Tabs :
        (loaded /\ ~browserTabs[t].open /\ privateTabs[t].present)
            ~> (~privateTabs[t].present /\ ~storedTabs[t].present)


C34_OverlappingAttemptsAreCounted ==
    [][\A i \in Slots :
          LET t == tasks[i].tab
          IN  (/\ tasks[i].op = "verify"
               /\ tasks[i].pc = "v_crypto"
               /\ tasks'[i].pc = "done"
               /\ ~verifyPassword(tasks[i].pw, tasks[i].hashv))
              => /\ ~LockedOut(CounterOf(t), tasks[i].t0)
                 /\ passwordAttempts'[t] # 0
                 /\ attemptObjs'[passwordAttempts'[t]].count = CounterOf(t).count + 1]_vars


\* C35: once the operations in flight have settled, a session timer is
\* pending only for a tab whose record exists and is unlocked.
C35_TimersOnlyForUnlockedTabs ==
    (loaded /\ Quiet) => \A x \in pendingTimers : Unlocked(x.tab)


\* C36: when a timer's callback that was suspended in lockTab finishes, a
\* timeout that is pending for the same tab and whose handle is in the handle
\* map keeps its handle there: the callback removes only its own.
C36_CallbackRemovesOnlyOwnHandle ==
    [][\A i \in Slots, x \in pendingTimers :
          (/\ tasks[i].op = "timer"
           /\ tasks[i].pc # "done"
           /\ tasks'[i].op = "timer"
           /\ tasks'[i].pc = "done"
           /\ tasks[i].tab = x.tab
           /\ x \in pendingTimers'
           /\ sessionTimers[x.tab] = x.id)
          => sessionTimers'[x.tab] = x.id]_vars


\* C37: when the start-up load completes, what happened before it is not
\* lost: a tab marked private while the load was pending is still in the
\* registry, and a tab closed while the load was pending has no record.
C37_EarlyOperationsSurviveLoad ==
    [][(~loaded /\ loaded')
          => \A t \in Tabs :
                /\ privateTabs[t].present => privateTabs'[t].present
                /\ ~browserTabs[t].open => ~privateTabs'[t].present]_vars


\* C38: once the operations in flight have settled, a tab that was closed
\* has no record in the registry and none in the persisted collection, also
\* when it was closed while a mark of it was suspended.
C38_ClosedTabHasNoRecord ==
    Quiet => \A t \in Tabs :
                ~browserTabs[t].open
                    => ~privateTabs[t].present /\ ~storedTabs[t].present


\* C39: a settings-mutating call changes only what it is about: when it
\* writes the settings, every other key keeps the value the store holds at
\* that moment, and adding a whitelist pattern keeps every pattern the
\* stored list holds, so a change made by a call that overlaps is not lost.
C39_SettingsUpdatesAreNotLost ==
    [][\A i \in Slots :
          (/\ tasks[i].pc \in {"s_get", "pm_get", "w_upd"}
           /\ tasks'[i].op = tasks[i].op
           /\ tasks'[i].pc # tasks[i].pc)
          => /\ \A k \in DOMAIN storedSettings :
                   k # tasks[i].patch[1] => storedSettings'[k] = storedSettings[k]
             /\ tasks[i].op = "addWhitelistedUrl"
                   => \A n \in 1..Len(storedSettings.whitelistedUrls) :
                         \E m \in 1..Len(storedSettings'.whitelistedUrls) :
                            storedSettings'.whitelistedUrls[m]
                               = storedSettings.whitelistedUrls[n]]_vars


\* C40: at every quiescent state, every unlocked record has a pending session
\* timer unless autoLockTimeout is 0 or auto-lock is suppressed for it under
\* the stored settings and the record's current URL.
C40_UnlockedTabsHaveTimer ==
    Quiet => \A t \in Tabs :
                (Unlocked(t) /\ storedSettings.autoLockTimeout > 0 /\ ~Suppressed(t))
                    => TimersFor(t) # {}

=============================================================================
